---- MODULE Spec2Model ----
(***************************************************************************)
(* Model of the agent core of EverMemoryArchive (packages/ema):            *)
(*   - ContextManager : message history, token accounting, summarization   *)
(*   - Agent.run      : the step loop, LLM call, sequential tool dispatch  *)
(*   - OpenAIClient.generate : the LLM boundary used by the agent          *)
(*   - RetryConfig / asyncRetry : the exponential-backoff retry wrapper    *)
(*                                                                         *)
(* Indices are 1-based here and 0-based in the TypeScript source: the      *)
(* system message is messages[1] (source: this.messages[0]).               *)
(* An optional value (null / undefined in the source) is a sequence of     *)
(* length 0 (absent) or 1 (present).                                       *)
(***************************************************************************)
EXTENDS Integers, Sequences, FiniteSets, TLC

VARIABLES
    messages,            \* ContextManager.messages
    apiTotalTokens,      \* ContextManager.apiTotalTokens
    skipNextTokenCheck,  \* ContextManager.skipNextTokenCheck
    maxSteps,            \* config.agent.maxSteps
    pc,                  \* where Agent.run() is: idle, loop, summary, llm, tools
    step,                \* local `step` of Agent.run()
    curCalls,            \* response.tool_calls being dispatched by Agent.run()
    toolIdx,             \* position of the for-loop over response.tool_calls
    inflight,            \* tool calls whose execute() has not settled yet
    sumRound,            \* summarizeMessages: loop index i (1-based round number)
    newMessages,         \* summarizeMessages: local newMessages
    summaryCount,        \* summarizeMessages: local summaryCount
    oldTokens,           \* summarizeMessages: local estimatedTokens
    tokenizerWorks,      \* whether get_encoding / encode of the tokenizer succeed
    request,             \* the messages handed to the LLM by the last step-level call
    log,                 \* events emitted and external calls made by the current run
    nInputs,             \* number of addUserMessage calls made so far
    nLLM,                \* number of step-level LLM requests made so far
    stepStart,           \* the history as it was when the current step began
    rcfg,                \* asyncRetry: the RetryConfig in use
    rpc,                 \* asyncRetry: idle, calling, waiting, returned, thrown
    attempt,             \* asyncRetry: local `attempt`
    lastException,       \* asyncRetry: local `lastException`
    rout,                \* asyncRetry: value returned or error thrown to the caller
    rlog,                \* asyncRetry: invocations, onRetry calls and waits, in order
    objects,             \* the message objects allocated, by reference
    arrays,              \* the arrays of message references allocated, by reference
    held,                \* ContextManager.messages as a reference to an array
    returned,            \* the array a getHistory() call gave its caller, if any
    listeners,           \* EventEmitter: the registrations of each event name, in order
    nRegs,               \* number of on/once registrations made so far
    roles,               \* MongoDB: the documents of the roles collection, by role id
    counter,             \* MongoDB: seq of the counters document of kind role (0: none yet)
    procs                \* the RoleDB call each client has in progress, if any

agentVars == <<messages, apiTotalTokens, skipNextTokenCheck, maxSteps, pc, step,
               curCalls, toolIdx, inflight, sumRound, newMessages, summaryCount,
               oldTokens, tokenizerWorks, request, log, nInputs, nLLM, stepStart>>
retryVars == <<rcfg, rpc, attempt, lastException, rout, rlog>>
copyVars == <<objects, arrays, held, returned>>
emitterVars == <<listeners, nRegs>>
dbVars == <<roles, counter, procs>>
vars == <<agentVars, retryVars, copyVars, emitterVars, dbVars>>

(***************************************************************************)
(* Bounds of the model                                                     *)
(***************************************************************************)
MaxUserInputs == 2     \* addUserMessage calls per behaviour
MaxStepsBound == 2     \* maxSteps ranges over 0..MaxStepsBound
MaxLLMCalls == 3       \* step-level LLM requests per behaviour
MaxRetriesBound == 7
MaxHistory == 3   \* RetryConfig.maxRetries ranges over 0..MaxRetriesBound

None == <<>>
Some(x) == <<x>>
IsSome(o) == Len(o) > 0
Get(o) == o[1]

Min(a, b) == IF a <= b THEN a ELSE b


(***************************************************************************)
(* Data model (schema.ts, tools/base.ts)                                   *)
(***************************************************************************)
\* Message: absent string fields are "", which the source treats like
\* null/undefined everywhere it reads them (if (msg.thinking), ...).
Message(role, content, thinking, tool_calls, tool_call_id, name) ==
    [role |-> role, content |-> content, thinking |-> thinking,
     tool_calls |-> tool_calls, tool_call_id |-> tool_call_id, name |-> name]

\* ToolCall {id, type, function: {name, arguments}}; arguments is an object,
\* kept as the sequence of its <<key, value>> pairs in key order.
ToolCall(id, fname, arguments) ==
    [id |-> id, type |-> "function",
     function |-> [name |-> fname, arguments |-> arguments]]

\* new ToolResult({success, content, error}): content ?? "", error ?? null
ToolResult(success, content, error) ==
    [success |-> success, content |-> content, error |-> error]

\* An Error object: name, message and the optional stack.
ErrorObj(name, message, stack) ==
    [name |-> name, message |-> message, stack |-> stack]

(***************************************************************************)
(* JSON.stringify of tool_calls, as estimateTokens reads it                *)
(***************************************************************************)
RECURSIVE JoinStrings(_, _)
JoinStrings(strs, sep) ==
    IF Len(strs) = 0 THEN ""
    ELSE IF Len(strs) = 1 THEN strs[1]
    ELSE strs[1] \o sep \o JoinStrings(Tail(strs), sep)

Quote(s) == "\"" \o s \o "\""

StringifyArguments(arguments) ==
    "{" \o JoinStrings([i \in 1..Len(arguments) |->
                          Quote(arguments[i][1]) \o ":" \o Quote(arguments[i][2])], ",")
        \o "}"

StringifyToolCall(tc) ==
    "{" \o Quote("id") \o ":" \o Quote(tc.id) \o ","
        \o Quote("type") \o ":" \o Quote(tc.type) \o ","
        \o Quote("function") \o ":{" \o Quote("name") \o ":" \o Quote(tc.function.name) \o ","
        \o Quote("arguments") \o ":" \o StringifyArguments(tc.function.arguments) \o "}}"

StringifyToolCalls(calls) ==
    "[" \o JoinStrings([i \in 1..Len(calls) |-> StringifyToolCall(calls[i])], ",") \o "]"

(***************************************************************************)
(* ContextManager                                                          *)
(***************************************************************************)
Includes(s, sub) ==
    \E i \in 1..(Len(s) - Len(sub) + 1) : SubSeq(s, i, i + Len(sub) - 1) = sub

\* Constructor arguments of the model's agent.
SystemPromptArg == "S"
WorkspaceDir == "/w"
tokenLimit == 50

\* constructor: the system prompt, enriched with the workspace unless it
\* already mentions it (the source's backquotes are written as quotes here).
systemPrompt ==
    IF ~Includes(SystemPromptArg, "Current Workspace")
    THEN SystemPromptArg \o "\n\n## Current Workspace\n"
         \o "You are currently working in: '" \o WorkspaceDir \o "'\n"
         \o "All relative paths will be resolved relative to this directory."
    ELSE SystemPromptArg

SystemMessage == Message("system", systemPrompt, "", None, "", "")

\* addUserMessage(content)
addUserMessageOverLast(msgs, content) ==
    [msgs EXCEPT ![Len(msgs)] = Message("user", content, "", None, "", "")]

addUserMessage(msgs, content) ==
    Append(msgs, Message("user", content, "", None, "", ""))

\* Mutant of addAssistantMessage: the response's thinking is not recorded.
addAssistantMessageWithoutThinking(msgs, response) ==
    Append(msgs, Message("assistant", response.content, "", response.tool_calls, "", ""))

\* Mutant of addAssistantMessage: the response's tool calls are not recorded.
addAssistantMessageWithoutCalls(msgs, response) ==
    Append(msgs, Message("assistant", response.content, response.thinking, None, "", ""))

\* addAssistantMessage(response)
addAssistantMessage(msgs, response) ==
    Append(msgs, Message("assistant", response.content, response.thinking,
                         response.tool_calls, "", ""))

\* addToolMessage(result, toolCallId, name)
ToolMessageContentUnprefixed(result) ==
    IF result.success THEN result.content ELSE result.error

ToolMessageContent(result) ==
    IF result.success THEN result.content ELSE "Error: " \o result.error

addToolMessage(msgs, result, toolCallId, name) ==
    Append(msgs, Message("tool", ToolMessageContent(result), "", None, toolCallId, name))

\* updateApiTokens(response): the new value of apiTotalTokens
updateApiTokens(old, response) ==
    IF IsSome(response.usage) THEN Get(response.usage).total_tokens ELSE old

\* encoding.encode(text).length of the cl100k_base tokenizer, which is an
\* external library: abstracted as one token per started group of 4 characters.
EncodeLength(text) == (Len(text) + 3) \div 4

\* The body of the try block of estimateTokens(): 4 units per message plus the
\* tokens of content, thinking and the stringified tool_calls.
RECURSIVE TiktokenTokens(_)
TiktokenTokens(msgs) ==
    IF Len(msgs) = 0 THEN 0
    ELSE LET msg == Head(msgs) IN
         EncodeLength(msg.content)
         + (IF msg.thinking # "" THEN EncodeLength(msg.thinking) ELSE 0)
         + (IF IsSome(msg.tool_calls)
            THEN EncodeLength(StringifyToolCalls(Get(msg.tool_calls))) ELSE 0)
         + 4
         + TiktokenTokens(Tail(msgs))

RECURSIVE TotalChars(_)
TotalChars(msgs) ==
    IF Len(msgs) = 0 THEN 0
    ELSE LET msg == Head(msgs) IN
         Len(msg.content)
         + (IF msg.thinking # "" THEN Len(msg.thinking) ELSE 0)
         + (IF IsSome(msg.tool_calls)
            THEN Len(StringifyToolCalls(Get(msg.tool_calls))) ELSE 0)
         + TotalChars(Tail(msgs))

\* estimateTokensFallback(): Math.floor(totalChars / 2.5)
estimateTokensFallback(msgs) == (TotalChars(msgs) * 2) \div 5

\* estimateTokens(): tokenizerOk says whether the tokenizer worked on this call.
estimateTokens(msgs, tokenizerOk) ==
    IF tokenizerOk THEN TiktokenTokens(msgs) ELSE estimateTokensFallback(msgs)

\* The events estimateTokens() emits on this call.
TokenizerError == ErrorObj("Error", "tokenizer unavailable", None)
EstimateEventsSilent(tokenizerOk) == <<>>

EstimateEvents(tokenizerOk) ==
    IF tokenizerOk THEN <<>>
    ELSE <<[name |-> "tokenEstimationFallbacked", error |-> TokenizerError]>>

\* Mutant of userIndicesOf: the filter skips one index too many (index > 1).
userIndicesSkippingOne(msgs) ==
    LET Idx[k \in 0..Len(msgs)] ==
            IF k = 0 THEN <<>>
            ELSE IF msgs[k].role = "user" /\ k > 2 THEN Append(Idx[k - 1], k)
            ELSE Idx[k - 1]
    IN Idx[Len(msgs)]

\* summarizeMessages: indices of the user messages (skipping the system prompt)
userIndicesOf(msgs) ==
    LET Idx[k \in 0..Len(msgs)] ==
            IF k = 0 THEN <<>>
            ELSE IF msgs[k].role = "user" /\ k > 1 THEN Append(Idx[k - 1], k)
            ELSE Idx[k - 1]
    IN Idx[Len(msgs)]

\* summarizeMessages: nextUserIdx of round i (the position after the round)
nextUserIdxOf(msgs, userIndices, i) ==
    IF i < Len(userIndices) THEN userIndices[i + 1] ELSE Len(msgs) + 1

\* summarizeMessages: executionMessages of round i
executionMessagesOf(msgs, userIndices, i) ==
    SubSeq(msgs, userIndices[i] + 1, nextUserIdxOf(msgs, userIndices, i) - 1)

\* createSummary: the transcript summaryContent of a round
RECURSIVE ToolNames(_)
ToolNames(calls) ==
    IF Len(calls) = 0 THEN <<>>
    ELSE <<Head(calls).function.name>> \o ToolNames(Tail(calls))

RECURSIVE TranscriptLines(_)
TranscriptLines(msgs) ==
    IF Len(msgs) = 0 THEN ""
    ELSE LET msg == Head(msgs) IN
         (IF msg.role = "assistant"
          THEN "Assistant: " \o msg.content \o "\n"
               \o (IF IsSome(msg.tool_calls)
                   THEN "  > Called tools: "
                        \o JoinStrings(ToolNames(Get(msg.tool_calls)), ", ") \o "\n"
                   ELSE "")
          ELSE IF msg.role = "tool"
          THEN "  < Tool returned: " \o msg.content \o "...\n"
          ELSE "")
         \o TranscriptLines(Tail(msgs))

summaryContentOf(msgs, roundNum) ==
    "Round " \o ToString(roundNum) \o " execution process:\n\n" \o TranscriptLines(msgs)

SummaryPrefix == "[Assistant Execution Summary]\n\n"
\* Mutant of summaryMessage: the summary is stored as an assistant message.
summaryMessageAsAssistant(summaryText) ==
    Message("assistant", SummaryPrefix \o summaryText, "", None, "", "")

summaryMessage(summaryText) ==
    Message("user", SummaryPrefix \o summaryText, "", None, "", "")


(***************************************************************************)
(* The collaborators: what the user, the LLM and the tools may answer      *)
(***************************************************************************)
\* What the user types: the k-th input of a behaviour is UserTexts[k].
UserTexts == <<"hi", "go", "ok", "so">>
UserInputs == {UserTexts[nInputs + 1]}

\* The tools given to the agent; parameters.properties is kept as its keys.
Tools == <<[name |-> "echo", properties |-> Some(<<"text">>)]>>

\* toolDict = new Map(tools.map(tool => [tool.name, tool])); toolDict.get(name)
toolDictGet(name) ==
    LET hits == SelectSeq(Tools, LAMBDA t : t.name = name)
    IN IF Len(hits) = 0 THEN None ELSE Some(hits[Len(hits)])

CallA == ToolCall("A", "echo", <<<<"text", "x">>>>)
CallB == ToolCall("B", "foo", <<>>)
CallC == ToolCall("C", "echo", <<<<"text", "y">>>>)

TokenUsage(total) ==
    [prompt_tokens |-> total, completion_tokens |-> 0, total_tokens |-> total]



\* LLMResponse as _parseResponse builds it (finish_reason is always "stop").
LLMResponse(content, thinking, tool_calls, usage) ==
    [content |-> content, thinking |-> thinking, tool_calls |-> tool_calls,
     finish_reason |-> "stop", usage |-> usage]

StepResponses ==
    { LLMResponse("hello", "", None, None),
      LLMResponse("done", "hm", Some(<<>>), Some(TokenUsage(100))),
      LLMResponse("", "hm", Some(<<CallA, CallB, CallC>>), Some(TokenUsage(10))) }

\* What the summary LLM call may answer with (response.content).
SummaryTexts == {"did it", ""}

\* Errors of the API request.
ApiErrors == { ErrorObj("APIError", "503", Some("at request")) }

\* What a registered tool's execute may do: resolve to a ToolResult or throw.
NullText == "null"   \* `${null}` in a template string
ToolReturns == { ToolResult(TRUE, "ok", NullText) }
\* The error a call's execute may throw: one with a stack for call "A", one
\* without a stack for every other call.
ToolThrows(tc) ==
    IF tc.id = "A" THEN { ErrorObj("TypeError", "boom", Some("at execute")) }
    ELSE { ErrorObj("Error", "bad", None) }

(***************************************************************************)
(* RetryConfig (retry.ts) and the client's use of it                       *)
(***************************************************************************)
\* retryableExceptions is the list of the names of the error classes given;
\* its default is [Error].
DefaultRetryableExceptions == <<"Error">>
RetryConfig(enabled, maxRetries, initialDelay, maxDelay, exponentialBase) ==
    [enabled |-> enabled, maxRetries |-> maxRetries, initialDelay |-> initialDelay,
     maxDelay |-> maxDelay, exponentialBase |-> exponentialBase,
     retryableExceptions |-> DefaultRetryableExceptions]

DefaultMaxRetries == 3
DefaultInitialDelay == 1
DefaultMaxDelay == 60
DefaultExponentialBase == 2
DefaultRetryConfig ==
    RetryConfig(TRUE, DefaultMaxRetries, DefaultInitialDelay, DefaultMaxDelay,
                DefaultExponentialBase)

RECURSIVE Pow(_, _)
Pow(b, n) == IF n = 0 THEN 1 ELSE b * Pow(b, n - 1)

\* Mutant of calculateDelay: the delay is not clamped to maxDelay.
calculateDelayUnclamped(config, att) ==
    config.initialDelay * Pow(config.exponentialBase, att)

\* RetryConfig.calculateDelay(attempt), attempt counted from 0
calculateDelay(config, att) ==
    LET delay == config.initialDelay * Pow(config.exponentialBase, att)
    IN Min(delay, config.maxDelay)

\* new RetryExhaustedError(lastException, attempts)
RetryExhaustedError(lastExc, attempts) ==
    [name |-> "RetryExhaustedError",
     message |-> "Retry failed after " \o ToString(attempts)
                 \o " attempts. Last error: " \o lastExc.message,
     stack |-> None, lastException |-> lastExc, attempts |-> attempts]

\* error instanceof RetryExhaustedError
IsRetryExhausted(e) == e.name = "RetryExhaustedError"


(***************************************************************************)
(* Events (AgentEventDefs) and the external calls, as entries of log       *)
(***************************************************************************)
EvSummarizeStarted(localTokens, apiTokens) ==
    [name |-> "summarizeMessagesStarted", localEstimatedTokens |-> localTokens,
     apiReportedTokens |-> apiTokens, tokenLimit |-> tokenLimit]
EvSummarizeFailed ==
    [name |-> "summarizeMessagesFinished", ok |-> FALSE,
     msg |-> "Insufficient messages, cannot summarize."]
EvSummarizeFinished(old, new, users, summaries) ==
    [name |-> "summarizeMessagesFinished", ok |-> TRUE,
     msg |-> "Summary completed and API token count will update on next LLM call.",
     oldTokens |-> old, newTokens |-> new, userMessageCount |-> users,
     summaryCount |-> summaries]
EvCreateSummaryOk(roundNum, summaryText) ==
    [name |-> "createSummaryFinished", ok |-> TRUE, msg |-> "Summary generation succeeded.",
     roundNum |-> roundNum, summaryText |-> summaryText]
EvCreateSummaryFailed(roundNum, error) ==
    [name |-> "createSummaryFinished", ok |-> FALSE, msg |-> "Summary generation failed.",
     roundNum |-> roundNum, error |-> error]
EvStepStartedZeroBased(stepNumber) ==
    [name |-> "stepStarted", stepNumber |-> stepNumber - 1, maxSteps |-> maxSteps]

EvStepStarted(stepNumber) ==
    [name |-> "stepStarted", stepNumber |-> stepNumber, maxSteps |-> maxSteps]
EvLLMResponseReceived(response) ==
    [name |-> "llmResponseReceived", response |-> response]
EvRunFinishedOk(msg) ==
    [name |-> "runFinished", ok |-> TRUE, msg |-> msg, error |-> None]
EvRunFinishedFailed(msg, error) ==
    [name |-> "runFinished", ok |-> FALSE, msg |-> msg, error |-> Some(error)]
EvToolCallStarted(tc) ==
    [name |-> "toolCallStarted", toolCallId |-> tc.id,
     functionName |-> tc.function.name, callArgs |-> tc.function.arguments]
EvToolCallFinished(tc, result) ==
    [name |-> "toolCallFinished", ok |-> result.success, toolCallId |-> tc.id,
     functionName |-> tc.function.name, result |-> result]
\* External calls: llm.generate of a step, llm.generate of createSummary, tool.execute
CallLLM == [name |-> "llm.generate"]
CallSummaryLLM(roundNum) == [name |-> "summary.generate", roundNum |-> roundNum]
ToolReturned(result) == [name |-> "tool.returned", result |-> result]
ToolThrew(err) == [name |-> "tool.threw", error |-> err]
CallTool(tc, positionalArgs) ==
    [name |-> "tool.execute", toolCallId |-> tc.id, args |-> positionalArgs]

(***************************************************************************)
(* ContextManager.summarizeMessages()                                      *)
(***************************************************************************)
\* The for-loop over the rounds from round i on, up to its next await: it
\* pushes the user message of each round and stops at the first round that has
\* execution messages (awaiting createSummary), or runs to the end.
RECURSIVE AdvanceRounds(_, _, _, _)
AdvanceRounds(msgs, userIndices, i, newMsgs) ==
    IF i > Len(userIndices)
    THEN [finished |-> TRUE, i |-> i, newMessages |-> newMsgs]
    ELSE LET pushed == Append(newMsgs, msgs[userIndices[i]]) IN
         IF Len(executionMessagesOf(msgs, userIndices, i)) > 0
         THEN [finished |-> FALSE, i |-> i, newMessages |-> pushed]
         ELSE AdvanceRounds(msgs, userIndices, i + 1, pushed)

\* if (summaryText) { newMessages.push(summaryMessage); summaryCount += 1 }
PushSummary(newMsgs, summaryText) ==
    IF summaryText # "" THEN Append(newMsgs, summaryMessage(summaryText)) ELSE newMsgs
CountSummary(count, summaryText) ==
    IF summaryText # "" THEN count + 1 ELSE count

\* Agent.run(): after summarizeMessages() returned, the step emits stepStarted
\* and calls llm.generate with the context's messages.
EnterLLM(msgs, lg) ==
    /\ log' = lg \o <<EvStepStarted(step + 1), CallLLM>>
    /\ request' = msgs
    /\ nLLM' = nLLM + 1
    /\ pc' = "llm"

\* Mutant of FinishPass: the pass does not set the suppression flag.
FinishPassFlagNotSet(newMsgs, count, old, lg, tokenizerOk) ==
    /\ messages' = newMsgs
    /\ skipNextTokenCheck' = skipNextTokenCheck
    /\ EnterLLM(newMsgs,
                lg \o EstimateEvents(tokenizerOk)
                   \o <<EvSummarizeFinished(old, estimateTokens(newMsgs, tokenizerOk),
                                            Len(userIndicesOf(messages)), count)>>)

\* The end of a summarization pass: install the new list, set the flag,
\* estimate again, report; then the step goes on.
FinishPass(newMsgs, count, old, lg, tokenizerOk) ==
    /\ messages' = newMsgs
    /\ skipNextTokenCheck' = TRUE
    /\ EnterLLM(newMsgs,
                lg \o EstimateEvents(tokenizerOk)
                   \o <<EvSummarizeFinished(old, estimateTokens(newMsgs, tokenizerOk),
                                            Len(userIndicesOf(messages)), count)>>)

\* Continue the pass from round i: await the next round summary or finish.
ContinuePass(i, newMsgs, count, old, lg, tokenizerOk) ==
    LET adv == AdvanceRounds(messages, userIndicesOf(messages), i, newMsgs) IN
    IF adv.finished
    THEN /\ FinishPass(adv.newMessages, count, old, lg, tokenizerOk)
         /\ sumRound' = 0
         /\ newMessages' = <<>>
         /\ summaryCount' = 0
         /\ oldTokens' = 0
    ELSE /\ pc' = "summary"
         /\ sumRound' = adv.i
         /\ newMessages' = adv.newMessages
         /\ summaryCount' = count
         /\ oldTokens' = old
         /\ log' = lg \o <<CallSummaryLLM(adv.i)>>
         /\ UNCHANGED <<messages, skipNextTokenCheck, request, nLLM>>

\* Mutant of shouldSummarize: the local estimate is not looked at.
shouldSummarizeApiOnly(estimatedTokens) == apiTotalTokens > tokenLimit

\* Mutant of shouldSummarize: the API-reported total is not looked at.
shouldSummarizeLocalOnly(estimatedTokens) == estimatedTokens > tokenLimit

\* const shouldSummarize = estimatedTokens > tokenLimit || apiTotalTokens > tokenLimit
shouldSummarize(estimatedTokens) ==
    estimatedTokens > tokenLimit \/ apiTotalTokens > tokenLimit

(***************************************************************************)
(* Actions of the user of the agent (run_agent.ts)                         *)
(***************************************************************************)
\* Mutant of AddUserMessage: the caller does not wait for run() to return
\* before it appends the next input.
AddUserMessageDuringRun(text) ==
    /\ pc \in {"idle", "summary"}
    /\ nInputs < MaxUserInputs
    /\ nLLM < MaxLLMCalls
    /\ messages' = addUserMessage(messages, text)
    /\ nInputs' = nInputs + 1
    /\ UNCHANGED <<apiTotalTokens, skipNextTokenCheck, maxSteps, pc, step, curCalls,
                   toolIdx, inflight, sumRound, newMessages, summaryCount, oldTokens,
                   request, log, nLLM, tokenizerWorks, stepStart, retryVars, copyVars, emitterVars, dbVars>>

\* The main loop of run_agent.ts: agent.contextManager.addUserMessage(userInput)
\* is called only after the awaited agent.run() of the input before has returned.
AddUserMessage(text) ==
    /\ pc = "idle"
    /\ nInputs < MaxUserInputs
    /\ nLLM < MaxLLMCalls
    /\ messages' = addUserMessage(messages, text)
    /\ nInputs' = nInputs + 1
    /\ UNCHANGED <<apiTotalTokens, skipNextTokenCheck, maxSteps, pc, step, curCalls,
                   toolIdx, inflight, sumRound, newMessages, summaryCount, oldTokens,
                   request, log, nLLM, tokenizerWorks, stepStart, retryVars, copyVars, emitterVars, dbVars>>

\* agent.run() is called: const maxSteps = ...; let step = 0
Run ==
    /\ pc = "idle"
    /\ nLLM + maxSteps <= MaxLLMCalls
    /\ pc' = "loop"
    /\ step' = 0
    /\ log' = <<>>
    /\ UNCHANGED <<messages, apiTotalTokens, skipNextTokenCheck, maxSteps, curCalls,
                   toolIdx, inflight, sumRound, newMessages, summaryCount, oldTokens,
                   request, nInputs, nLLM, tokenizerWorks, stepStart, retryVars, copyVars, emitterVars, dbVars>>

(***************************************************************************)
(* Agent.run(): one action per stretch of code between two awaits          *)
(***************************************************************************)
\* Mutant of LoopCondition: the bound is off by one.
LoopConditionOffByOne == step <= maxSteps

\* while (step < maxSteps)
LoopCondition == step < maxSteps

\* the loop is left: "Max steps reached"
MaxStepsMsg == "Task couldn't be completed after " \o ToString(maxSteps) \o " steps."
\* Mutant of LoopExit: the loop is left without a runFinished event.
LoopExitSilent ==
    /\ pc = "loop"
    /\ ~LoopCondition
    /\ pc' = "idle"
    /\ UNCHANGED <<messages, apiTotalTokens, skipNextTokenCheck, maxSteps, step, curCalls,
                   toolIdx, inflight, sumRound, newMessages, summaryCount, oldTokens,
                   request, log, nInputs, nLLM, tokenizerWorks, stepStart, retryVars, copyVars, emitterVars, dbVars>>

LoopExit ==
    /\ pc = "loop"
    /\ ~LoopCondition
    /\ log' = Append(log, EvRunFinishedFailed(MaxStepsMsg, ErrorObj("Error", MaxStepsMsg, None)))
    /\ pc' = "idle"
    /\ UNCHANGED <<messages, apiTotalTokens, skipNextTokenCheck, maxSteps, step, curCalls,
                   toolIdx, inflight, sumRound, newMessages, summaryCount, oldTokens,
                   request, nInputs, nLLM, tokenizerWorks, stepStart, retryVars, copyVars, emitterVars, dbVars>>

\* summarizeMessages() returns at once because skipNextTokenCheck is set.
StepSkipCheck ==
    /\ pc = "loop"
    /\ LoopCondition
    /\ skipNextTokenCheck
    /\ skipNextTokenCheck' = FALSE
    /\ EnterLLM(messages, log)
    /\ UNCHANGED <<messages, apiTotalTokens, maxSteps, step, curCalls, toolIdx, inflight,
                   sumRound, newMessages, summaryCount, oldTokens, nInputs, tokenizerWorks, retryVars, copyVars, emitterVars, dbVars>>
    /\ stepStart' = messages

\* summarizeMessages() returns because neither count exceeds the limit.
StepUnderBudget(tokenizerOk) ==
    /\ pc = "loop"
    /\ LoopCondition
    /\ ~skipNextTokenCheck
    /\ ~shouldSummarize(estimateTokens(messages, tokenizerOk))
    /\ EnterLLM(messages, log \o EstimateEvents(tokenizerOk))
    /\ UNCHANGED <<messages, apiTotalTokens, skipNextTokenCheck, maxSteps, step, curCalls,
                   toolIdx, inflight, sumRound, newMessages, summaryCount, oldTokens,
                   nInputs, tokenizerWorks, retryVars, copyVars, emitterVars, dbVars>>
    /\ stepStart' = messages

\* Mutant of StepCannotSummarize: the failed precondition ends the run.
StepCannotSummarizeEndsRun(tokenizerOk) ==
    LET estimatedTokens == estimateTokens(messages, tokenizerOk) IN
    /\ pc = "loop"
    /\ LoopCondition
    /\ ~skipNextTokenCheck
    /\ shouldSummarize(estimatedTokens)
    /\ Len(userIndicesOf(messages)) < 1
    /\ log' = log \o EstimateEvents(tokenizerOk)
                  \o <<EvSummarizeStarted(estimatedTokens, apiTotalTokens), EvSummarizeFailed>>
    /\ pc' = "idle"
    /\ UNCHANGED <<messages, apiTotalTokens, skipNextTokenCheck, maxSteps, step, curCalls,
                   toolIdx, inflight, sumRound, newMessages, summaryCount, oldTokens,
                   request, nInputs, nLLM, tokenizerWorks, retryVars, copyVars, emitterVars, dbVars>>
    /\ stepStart' = messages

\* summarizeMessages() is triggered but finds no user message.
StepCannotSummarize(tokenizerOk) ==
    LET estimatedTokens == estimateTokens(messages, tokenizerOk) IN
    /\ pc = "loop"
    /\ LoopCondition
    /\ ~skipNextTokenCheck
    /\ shouldSummarize(estimatedTokens)
    /\ Len(userIndicesOf(messages)) < 1
    /\ EnterLLM(messages, log \o EstimateEvents(tokenizerOk)
                              \o <<EvSummarizeStarted(estimatedTokens, apiTotalTokens),
                                   EvSummarizeFailed>>)
    /\ UNCHANGED <<messages, apiTotalTokens, skipNextTokenCheck, maxSteps, step, curCalls,
                   toolIdx, inflight, sumRound, newMessages, summaryCount, oldTokens,
                   nInputs, tokenizerWorks, retryVars, copyVars, emitterVars, dbVars>>
    /\ stepStart' = messages

\* Mutant of KeptSystemPrompt: the new list starts empty.
KeptNothing(msgs) == <<>>

\* const newMessages = [this.messages[0]]  (keep the system prompt)
KeptSystemPrompt(msgs) == <<msgs[1]>>

\* summarizeMessages() is triggered and starts a pass: up to the first await of
\* createSummary, or to the end when no round has execution messages.
StepSummarize(tokenizerOk, tokenizerOk2) ==
    LET estimatedTokens == estimateTokens(messages, tokenizerOk) IN
    /\ pc = "loop"
    /\ LoopCondition
    /\ ~skipNextTokenCheck
    /\ shouldSummarize(estimatedTokens)
    /\ Len(userIndicesOf(messages)) >= 1
    /\ ContinuePass(1, KeptSystemPrompt(messages), 0, estimatedTokens,
                    log \o EstimateEvents(tokenizerOk)
                        \o <<EvSummarizeStarted(estimatedTokens, apiTotalTokens)>>,
                    tokenizerOk2)
    /\ UNCHANGED <<apiTotalTokens, maxSteps, step, curCalls, toolIdx, inflight,
                   nInputs, tokenizerWorks, retryVars, copyVars, emitterVars, dbVars>>
    /\ stepStart' = messages

\* createSummary: llmClient.generate resolved with response.content = text
SummaryReturn(text, tokenizerOk) ==
    /\ pc = "summary"
    /\ ContinuePass(sumRound + 1, PushSummary(newMessages, text),
                    CountSummary(summaryCount, text), oldTokens,
                    Append(log, EvCreateSummaryOk(sumRound, text)), tokenizerOk)
    /\ UNCHANGED <<apiTotalTokens, maxSteps, step, curCalls, toolIdx, inflight,
                   nInputs, tokenizerWorks, stepStart, retryVars, copyVars, emitterVars, dbVars>>

\* Mutant of SummaryFail: a failed summary call yields no summary for the round.
SummaryFailDropsRound(error, tokenizerOk) ==
    /\ pc = "summary"
    /\ ContinuePass(sumRound + 1, newMessages, summaryCount, oldTokens,
                    Append(log, EvCreateSummaryFailed(sumRound, error)), tokenizerOk)
    /\ UNCHANGED <<apiTotalTokens, maxSteps, step, curCalls, toolIdx, inflight,
                   nInputs, tokenizerWorks, stepStart, retryVars, copyVars, emitterVars, dbVars>>

\* createSummary: llmClient.generate threw; the transcript is returned instead
SummaryFail(error, tokenizerOk) ==
    LET userIndices == userIndicesOf(messages)
        summaryContent ==
            summaryContentOf(executionMessagesOf(messages, userIndices, sumRound), sumRound)
    IN
    /\ pc = "summary"
    /\ ContinuePass(sumRound + 1, PushSummary(newMessages, summaryContent),
                    CountSummary(summaryCount, summaryContent), oldTokens,
                    Append(log, EvCreateSummaryFailed(sumRound, error)), tokenizerOk)
    /\ UNCHANGED <<apiTotalTokens, maxSteps, step, curCalls, toolIdx, inflight,
                   nInputs, tokenizerWorks, stepStart, retryVars, copyVars, emitterVars, dbVars>>


(***************************************************************************)
(* OpenAIClient.generate (llm/openai_client.ts): with retryConfig.enabled  *)
(* it warns "Retry is not implemented" and makes the one API request all   *)
(* the same, so the error of that request is the error generate throws.    *)
(***************************************************************************)
clientRetryConfig == DefaultRetryConfig

generateThrows(config, apiError) == apiError

\* Agent.run(): the catch block around llm.generate
RunFinishedOnLLMError(error) ==
    IF IsRetryExhausted(error)
    THEN EvRunFinishedFailed("LLM call failed after " \o ToString(error.attempts)
                             \o " retries.", error)
    ELSE EvRunFinishedFailed("LLM call failed.", error)

\* Mutant of LLMFail: the failed step leaves an assistant message behind.
LLMFailLeavesMessage(apiError) ==
    /\ pc = "llm"
    /\ log' = Append(log, RunFinishedOnLLMError(generateThrows(clientRetryConfig, apiError)))
    /\ pc' = "idle"
    /\ messages' = Append(messages, Message("assistant", "", "", None, "", ""))
    /\ UNCHANGED <<apiTotalTokens, skipNextTokenCheck, maxSteps, step, curCalls,
                   toolIdx, inflight, sumRound, newMessages, summaryCount, oldTokens,
                   request, nInputs, nLLM, tokenizerWorks, stepStart, retryVars, copyVars, emitterVars, dbVars>>

\* llm.generate threw
LLMFail(apiError) ==
    /\ pc = "llm"
    /\ log' = Append(log, RunFinishedOnLLMError(generateThrows(clientRetryConfig, apiError)))
    /\ pc' = "idle"
    /\ UNCHANGED <<messages, apiTotalTokens, skipNextTokenCheck, maxSteps, step, curCalls,
                   toolIdx, inflight, sumRound, newMessages, summaryCount, oldTokens,
                   request, nInputs, nLLM, tokenizerWorks, stepStart, retryVars, copyVars, emitterVars, dbVars>>

\* Mutant of NoToolCalls: only an absent list counts, an empty one does not.
NoToolCallsAbsentOnly(response) == ~IsSome(response.tool_calls)

\* if (!response.tool_calls || response.tool_calls.length === 0)
NoToolCalls(response) ==
    IF IsSome(response.tool_calls) THEN Len(Get(response.tool_calls)) = 0 ELSE TRUE

\* llm.generate resolved with a response that carries no tool calls
LLMReturnFinal(response) ==
    /\ pc = "llm"
    /\ NoToolCalls(response)
    /\ apiTotalTokens' = updateApiTokens(apiTotalTokens, response)
    /\ messages' = addAssistantMessage(messages, response)
    /\ log' = log \o <<EvLLMResponseReceived(response), EvRunFinishedOk(response.content)>>
    /\ pc' = "idle"
    /\ UNCHANGED <<skipNextTokenCheck, maxSteps, step, curCalls, toolIdx, inflight,
                   sumRound, newMessages, summaryCount, oldTokens, request, nInputs,
                   nLLM, tokenizerWorks, stepStart, retryVars, copyVars, emitterVars, dbVars>>

\* llm.generate resolved with a response that carries tool calls
LLMReturnTools(response) ==
    /\ pc = "llm"
    /\ ~NoToolCalls(response)
    /\ apiTotalTokens' = updateApiTokens(apiTotalTokens, response)
    /\ messages' = addAssistantMessage(messages, response)
    /\ log' = Append(log, EvLLMResponseReceived(response))
    /\ pc' = "tools"
    /\ curCalls' = Get(response.tool_calls)
    /\ toolIdx' = 1
    /\ UNCHANGED <<skipNextTokenCheck, maxSteps, step, inflight, sumRound, newMessages,
                   summaryCount, oldTokens, request, nInputs, nLLM, tokenizerWorks, stepStart, retryVars, copyVars, emitterVars, dbVars>>

\* callArgs[key] (undefined when the key is missing)
Undefined == "undefined"
ArgValue(callArgs, key) ==
    LET hits == SelectSeq(callArgs, LAMBDA p : p[1] = key)
    IN IF Len(hits) = 0 THEN Undefined ELSE hits[1][2]

\* Mutant of positionalArgs: the declared properties are not looked at.
positionalArgsAllValues(tool, callArgs) ==
    [j \in 1..Len(callArgs) |-> callArgs[j][2]]

\* props ? Object.keys(props).map(key => callArgs[key]) : Object.values(callArgs)
positionalArgs(tool, callArgs) ==
    IF IsSome(tool.properties)
    THEN [j \in 1..Len(Get(tool.properties)) |-> ArgValue(callArgs, Get(tool.properties)[j])]
    ELSE [j \in 1..Len(callArgs) |-> callArgs[j][2]]

\* Mutant of PreviousCallSettled: the loop waits for a settlement that never
\* comes.
PreviousCallNeverSettles == FALSE

\* Mutant of PreviousCallSettled: execute is not awaited before the next call.
PreviousCallNotAwaited == TRUE

\* The for-loop reaches its next tool call only when the awaited execute of the
\* one before has settled.
PreviousCallSettled == inflight = {}

\* Mutant of UnknownToolResult: the lookup failure is reported as a success.
UnknownToolResultSucceeds(functionName) ==
    [success |-> TRUE, content |-> "", error |-> "null"]

\* if (!tool): the result is made on the spot, nothing is awaited
UnknownToolResult(functionName) ==
    ToolResult(FALSE, "", "Unknown tool: " \o functionName)

\* Mutant of ToolUnknown: an unknown tool name ends the run with a failure.
ToolUnknownEndsRun ==
    /\ pc = "tools"
    /\ toolIdx <= Len(curCalls)
    /\ PreviousCallSettled
    /\ ~IsSome(toolDictGet(curCalls[toolIdx].function.name))
    /\ LET tc == curCalls[toolIdx]
           msg == "Unknown tool: " \o tc.function.name
       IN log' = log \o <<EvToolCallStarted(tc),
                          EvRunFinishedFailed(msg, ErrorObj("Error", msg, None))>>
    /\ pc' = "idle"
    /\ UNCHANGED <<messages, apiTotalTokens, skipNextTokenCheck, maxSteps, step, curCalls,
                   toolIdx, inflight, sumRound, newMessages, summaryCount, oldTokens,
                   request, nInputs, nLLM, tokenizerWorks, stepStart, retryVars, copyVars, emitterVars, dbVars>>

ToolUnknown ==
    /\ pc = "tools"
    /\ toolIdx <= Len(curCalls)
    /\ PreviousCallSettled
    /\ ~IsSome(toolDictGet(curCalls[toolIdx].function.name))
    /\ LET tc == curCalls[toolIdx]
           result == UnknownToolResult(tc.function.name)
       IN /\ log' = log \o <<EvToolCallStarted(tc), EvToolCallFinished(tc, result)>>
          /\ messages' = addToolMessage(messages, result, tc.id, tc.function.name)
    /\ toolIdx' = toolIdx + 1
    /\ UNCHANGED <<apiTotalTokens, skipNextTokenCheck, maxSteps, pc, step, curCalls,
                   inflight, sumRound, newMessages, summaryCount, oldTokens, request,
                   nInputs, nLLM, tokenizerWorks, stepStart, retryVars, copyVars, emitterVars, dbVars>>

\* a registered tool: toolCallStarted, then await tool.execute(...positionalArgs)
ToolStart ==
    /\ pc = "tools"
    /\ toolIdx <= Len(curCalls)
    /\ PreviousCallSettled
    /\ IsSome(toolDictGet(curCalls[toolIdx].function.name))
    /\ LET tc == curCalls[toolIdx]
           tool == Get(toolDictGet(tc.function.name))
       IN log' = log \o <<EvToolCallStarted(tc),
                          CallTool(tc, positionalArgs(tool, tc.function.arguments))>>
    /\ inflight' = inflight \cup {toolIdx}
    /\ toolIdx' = toolIdx + 1
    /\ UNCHANGED <<messages, apiTotalTokens, skipNextTokenCheck, maxSteps, pc, step,
                   curCalls, sumRound, newMessages, summaryCount, oldTokens, request,
                   nInputs, nLLM, tokenizerWorks, stepStart, retryVars, copyVars, emitterVars, dbVars>>

\* What follows the try/catch around execute: toolCallFinished, addToolMessage
SettleTool(k, result, outcome) ==
    /\ log' = log \o <<outcome, EvToolCallFinished(curCalls[k], result)>>
    /\ messages' = addToolMessage(messages, result, curCalls[k].id, curCalls[k].function.name)
    /\ inflight' = inflight \ {k}
    /\ UNCHANGED <<apiTotalTokens, skipNextTokenCheck, maxSteps, pc, step, curCalls,
                   toolIdx, sumRound, newMessages, summaryCount, oldTokens, request,
                   nInputs, nLLM, tokenizerWorks, stepStart, retryVars, copyVars, emitterVars, dbVars>>

\* execute resolved with a ToolResult
ToolReturn(k, result) ==
    /\ pc = "tools"
    /\ k \in inflight
    /\ SettleTool(k, result, ToolReturned(result))

\* catch (err): the ToolResult made of the error's name, message and stack
ThrownToolResult(err) ==
    LET errorDetail == err.name \o ": " \o err.message
        errorTrace == IF IsSome(err.stack) THEN Get(err.stack) ELSE ""
    IN ToolResult(FALSE, "", "Tool execution failed: " \o errorDetail
                             \o "\n\nTraceback:\n" \o errorTrace)

\* Mutant of ToolThrow: the exception is not caught and ends run().
ToolThrowEscapes(k, err) ==
    /\ pc = "tools"
    /\ k \in inflight
    /\ pc' = "idle"
    /\ inflight' = {}
    /\ log' = Append(log, ToolThrew(err))
    /\ UNCHANGED <<messages, apiTotalTokens, skipNextTokenCheck, maxSteps, step, curCalls,
                   toolIdx, sumRound, newMessages, summaryCount, oldTokens, request,
                   nInputs, nLLM, tokenizerWorks, stepStart, retryVars, copyVars, emitterVars, dbVars>>

\* execute threw
ToolThrow(k, err) ==
    /\ pc = "tools"
    /\ k \in inflight
    /\ SettleTool(k, ThrownToolResult(err), ToolThrew(err))

\* the for-loop over the tool calls is over: step += 1
StepEnd ==
    /\ pc = "tools"
    /\ toolIdx > Len(curCalls)
    /\ inflight = {}
    /\ step' = step + 1
    /\ pc' = "loop"
    /\ curCalls' = <<>>
    /\ toolIdx' = 0
    /\ UNCHANGED <<messages, apiTotalTokens, skipNextTokenCheck, maxSteps, inflight,
                   sumRound, newMessages, summaryCount, oldTokens, request, log,
                   nInputs, nLLM, tokenizerWorks, stepStart, retryVars, copyVars, emitterVars, dbVars>>

(***************************************************************************)
(* The agent's specification                                               *)
(***************************************************************************)
\* No getHistory() call, no event registration and no role database call is
\* modelled here.
CopyIdle ==
    /\ objects = <<>>
    /\ arrays = <<>>
    /\ held = 0
    /\ returned = None

EmitterIdle ==
    /\ listeners = <<>>
    /\ nRegs = 0

DbIdle ==
    /\ roles = <<>>
    /\ counter = 0
    /\ procs = <<>>

RetryIdle ==
    /\ CopyIdle
    /\ EmitterIdle
    /\ DbIdle
    /\ rcfg = [config |-> DefaultRetryConfig, hasOnRetry |-> FALSE]
    /\ rpc = "idle"
    /\ attempt = 0
    /\ lastException = None
    /\ rout = None
    /\ rlog = <<>>

AgentInit ==
    /\ messages = <<SystemMessage>>
    /\ apiTotalTokens = 0
    /\ skipNextTokenCheck = FALSE
    /\ pc = "idle"
    /\ step = 0
    /\ curCalls = <<>>
    /\ toolIdx = 0
    /\ inflight = {}
    /\ sumRound = 0
    /\ newMessages = <<>>
    /\ summaryCount = 0
    /\ oldTokens = 0
    /\ request = <<>>
    /\ log = <<>>
    /\ nInputs = 0
    /\ nLLM = 0
    /\ stepStart = <<>>

Init ==
    /\ AgentInit
    /\ maxSteps \in 0..MaxStepsBound
    /\ tokenizerWorks \in BOOLEAN
    /\ RetryIdle

\* The outcomes of the tokenizer on one estimateTokens() call
TokenizerOutcomes == {tokenizerWorks}

Next ==
    \/ \E text \in UserInputs : AddUserMessage(text)
    \/ Run
    \/ LoopExit
    \/ StepSkipCheck
    \/ \E tokenizerOk \in TokenizerOutcomes : StepUnderBudget(tokenizerOk)
    \/ \E tokenizerOk \in TokenizerOutcomes : StepCannotSummarize(tokenizerOk)
    \/ \E tokenizerOk \in TokenizerOutcomes, tokenizerOk2 \in TokenizerOutcomes :
          StepSummarize(tokenizerOk, tokenizerOk2)
    \/ \E text \in SummaryTexts, tokenizerOk \in TokenizerOutcomes : SummaryReturn(text, tokenizerOk)
    \/ \E error \in ApiErrors, tokenizerOk \in TokenizerOutcomes : SummaryFail(error, tokenizerOk)
    \/ \E apiError \in ApiErrors : LLMFail(apiError)
    \/ \E response \in StepResponses : LLMReturnFinal(response)
    \/ \E response \in StepResponses : LLMReturnTools(response)
    \/ ToolUnknown
    \/ ToolStart
    \/ \E k \in inflight, result \in ToolReturns : ToolReturn(k, result)
    \/ \E k \in inflight : \E err \in ToolThrows(curCalls[k]) : ToolThrow(k, err)
    \/ StepEnd

Spec == Init /\ [][Next]_vars

\* The steps of run() itself: every stretch of its code that follows entry or
\* the settlement of an awaited call.
RunStep ==
    \/ LoopExit
    \/ StepSkipCheck
    \/ \E tokenizerOk \in TokenizerOutcomes : StepUnderBudget(tokenizerOk)
    \/ \E tokenizerOk \in TokenizerOutcomes : StepCannotSummarize(tokenizerOk)
    \/ \E tokenizerOk \in TokenizerOutcomes, tokenizerOk2 \in TokenizerOutcomes :
          StepSummarize(tokenizerOk, tokenizerOk2)
    \/ \E text \in SummaryTexts, tokenizerOk \in TokenizerOutcomes : SummaryReturn(text, tokenizerOk)
    \/ \E error \in ApiErrors, tokenizerOk \in TokenizerOutcomes : SummaryFail(error, tokenizerOk)
    \/ \E apiError \in ApiErrors : LLMFail(apiError)
    \/ \E response \in StepResponses : LLMReturnFinal(response)
    \/ \E response \in StepResponses : LLMReturnTools(response)
    \/ ToolUnknown
    \/ ToolStart
    \/ \E k \in inflight, result \in ToolReturns : ToolReturn(k, result)
    \/ \E k \in inflight : \E err \in ToolThrows(curCalls[k]) : ToolThrow(k, err)
    \/ StepEnd

\* The agent when every awaited call settles and run() is scheduled again
\* after it: the event loop runs a continuation that is ready.
SpecLive == Init /\ [][Next]_vars /\ WF_vars(RunStep)


(***************************************************************************)
(* asyncRetry (retry.ts): the wrapper around one fallible async operation  *)
(***************************************************************************)
\* What the wrapped operation may do on an attempt.
OpValues == {"v", "w"}
OpErrors == { ErrorObj("Error", "e1", None), ErrorObj("TimeoutError", "e2", None) }

\* (initialDelay, exponentialBase, maxDelay) of the configurations explored
DelayParams == { <<DefaultInitialDelay, DefaultExponentialBase, DefaultMaxDelay>>,
                 <<2, 3, 100>> }

\* The retryableExceptions of the configurations explored: the default, and
\* the one error class TimeoutError.
RetryableChoices == { DefaultRetryableExceptions, <<"TimeoutError">> }

RetryConfigs ==
    { [RetryConfig(TRUE, m, d[1], d[3], d[2]) EXCEPT !.retryableExceptions = r] :
        m \in (-1)..MaxRetriesBound, d \in DelayParams, r \in RetryableChoices }

\* entries of rlog
RInvoke(att) == [name |-> "invoke", attempt |-> att]
ROnRetry(exception, att) == [name |-> "onRetry", exception |-> exception, attempt |-> att]
RWait(ms) == [name |-> "wait", ms |-> ms]
RSucceeded(value) == [name |-> "succeeded", value |-> value]
RFailed(exception) == [name |-> "failed", exception |-> exception]

\* The wrapped method is called: for (let attempt = 0; attempt <= maxRetries; ...)
RetryInvoke ==
    /\ rpc = "idle"
    /\ 0 <= rcfg.config.maxRetries
    /\ attempt' = 0
    /\ rpc' = "calling"
    /\ rlog' = <<RInvoke(0)>>
    /\ UNCHANGED <<rcfg, lastException, rout, agentVars, copyVars, emitterVars, dbVars>>

\* The loop body is never entered (maxRetries < 0): throw new Error("Unknown error")
RetryInvokeNoAttempt ==
    /\ rpc = "idle"
    /\ ~(0 <= rcfg.config.maxRetries)
    /\ rpc' = "thrown"
    /\ rout' = Some([kind |-> "throw", error |-> ErrorObj("Error", "Unknown error", None)])
    /\ UNCHANGED <<rcfg, attempt, lastException, rlog, agentVars, copyVars, emitterVars, dbVars>>

\* return await originalMethod.apply(this, args)
OpReturn(value) ==
    /\ rpc = "calling"
    /\ rpc' = "returned"
    /\ rout' = Some([kind |-> "return", value |-> value])
    /\ rlog' = Append(rlog, RSucceeded(value))
    /\ UNCHANGED <<rcfg, attempt, lastException, agentVars, copyVars, emitterVars, dbVars>>

\* Mutant of OpThrowLast: the error reports the retries, not the attempts.
OpThrowLastCountsRetries(exception) ==
    /\ rpc = "calling"
    /\ attempt >= rcfg.config.maxRetries
    /\ lastException' = Some(exception)
    /\ rpc' = "thrown"
    /\ rout' = Some([kind |-> "throw", error |-> RetryExhaustedError(exception, attempt)])
    /\ rlog' = Append(rlog, RFailed(exception))
    /\ UNCHANGED <<rcfg, attempt, agentVars, copyVars, emitterVars, dbVars>>

\* catch (exception) with attempt >= maxRetries: throw new RetryExhaustedError
OpThrowLast(exception) ==
    /\ rpc = "calling"
    /\ attempt >= rcfg.config.maxRetries
    /\ lastException' = Some(exception)
    /\ rpc' = "thrown"
    /\ rout' = Some([kind |-> "throw", error |-> RetryExhaustedError(exception, attempt + 1)])
    /\ rlog' = Append(rlog, RFailed(exception))
    /\ UNCHANGED <<rcfg, attempt, agentVars, copyVars, emitterVars, dbVars>>

\* Mutant of OpThrowRetry: the callback gets the loop's 0-based attempt.
OpThrowRetryZeroBased(exception) ==
    /\ rpc = "calling"
    /\ ~(attempt >= rcfg.config.maxRetries)
    /\ lastException' = Some(exception)
    /\ rpc' = "waiting"
    /\ rlog' = Append(rlog, RFailed(exception))
               \o (IF rcfg.hasOnRetry THEN <<ROnRetry(exception, attempt)>> ELSE <<>>)
               \o <<RWait(calculateDelay(rcfg.config, attempt) * 1000)>>
    /\ UNCHANGED <<rcfg, attempt, rout, agentVars, copyVars, emitterVars, dbVars>>

\* catch (exception) otherwise: onRetry(lastException, attempt + 1), then
\* await setTimeout(delay * 1000)
OpThrowRetry(exception) ==
    /\ rpc = "calling"
    /\ ~(attempt >= rcfg.config.maxRetries)
    /\ lastException' = Some(exception)
    /\ rpc' = "waiting"
    /\ rlog' = Append(rlog, RFailed(exception))
               \o (IF rcfg.hasOnRetry THEN <<ROnRetry(exception, attempt + 1)>> ELSE <<>>)
               \o <<RWait(calculateDelay(rcfg.config, attempt) * 1000)>>
    /\ UNCHANGED <<rcfg, attempt, rout, agentVars, copyVars, emitterVars, dbVars>>

\* The timer fired: attempt++, and the loop calls the method again
WaitOver ==
    /\ rpc = "waiting"
    /\ attempt' = attempt + 1
    /\ IF attempt + 1 <= rcfg.config.maxRetries
       THEN /\ rpc' = "calling"
            /\ rlog' = Append(rlog, RInvoke(attempt + 1))
            /\ rout' = rout
       ELSE /\ rpc' = "thrown"
            /\ rlog' = rlog
            /\ rout' = Some([kind |-> "throw", error |-> Get(lastException)])
    /\ UNCHANGED <<rcfg, lastException, agentVars, copyVars, emitterVars, dbVars>>

RetryInit ==
    /\ AgentInit
    /\ CopyIdle
    /\ EmitterIdle
    /\ DbIdle
    /\ maxSteps = 0
    /\ tokenizerWorks = TRUE
    /\ rcfg \in [config : RetryConfigs, hasOnRetry : BOOLEAN]
    /\ rpc = "idle"
    /\ attempt = 0
    /\ lastException = None
    /\ rout = None
    /\ rlog = <<>>

RetryNext ==
    \/ RetryInvoke
    \/ RetryInvokeNoAttempt
    \/ \E value \in OpValues : OpReturn(value)
    \/ \E exception \in OpErrors : OpThrowLast(exception)
    \/ \E exception \in OpErrors : OpThrowRetry(exception)
    \/ WaitOver

SpecRetry == RetryInit /\ [][RetryNext]_vars


(***************************************************************************)
(* Properties                                                              *)
(***************************************************************************)
\* The step in which a summarization pass installs the rebuilt history: the
\* pass is the only code that sets skipNextTokenCheck.
PassRebuilds == ~skipNextTokenCheck /\ skipNextTokenCheck'

\* The role=user messages of a history after the system message.
UserMessagesOf(msgs) == SelectSeq(Tail(msgs), LAMBDA m : m.role = "user")

\* sub is a subsequence of seq: its elements occur in seq in the same order.
RECURSIVE IsSubsequence(_, _)
IsSubsequence(sub, seq) ==
    IF Len(sub) = 0 THEN TRUE
    ELSE IF Len(seq) = 0 THEN FALSE
    ELSE IF Head(sub) = Head(seq) THEN IsSubsequence(Tail(sub), Tail(seq))
    ELSE IsSubsequence(sub, Tail(seq))

IsSummaryMessage(m) ==
    /\ m.role = "user"
    /\ Len(m.content) >= Len(SummaryPrefix)
    /\ SubSeq(m.content, 1, Len(SummaryPrefix)) = SummaryPrefix

LogHas(P(_)) == \E i \in 1..Len(log) : P(log[i])
LogCount(P(_)) == Cardinality({i \in 1..Len(log) : P(log[i])})

\* C1: a summarization pass that rebuilds the history keeps every role=user
\* message that was in it (after the system message), verbatim and in the same
\* relative order.
C1_UserMessagesKept ==
    [][PassRebuilds =>
         IsSubsequence(UserMessagesOf(messages), UserMessagesOf(messages'))]_vars

\* C1 witness: a pass has just rebuilt a history of two user messages in which
\* it replaced execution messages by a summary.
C1_Witness ==
    /\ skipNextTokenCheck
    /\ pc = "llm"
    /\ LogHas(LAMBDA e : /\ e.name = "summarizeMessagesFinished"
                         /\ e.ok
                         /\ e.userMessageCount >= 2
                         /\ e.summaryCount >= 1)
    /\ Len(UserMessagesOf(messages)) >= 3

\* The rebuilt history new, from position j on, is what the claim says of the
\* rounds i.. of the history old: the round's user message, then one summary
\* message exactly when the round has messages after its user message.
RECURSIVE RoundsAsClaimed(_, _, _, _, _)
RoundsAsClaimed(old, userIndices, i, new, j) ==
    IF i > Len(userIndices) THEN j = Len(new) + 1
    ELSE /\ j <= Len(new)
         /\ new[j] = old[userIndices[i]]
         /\ LET last == IF i < Len(userIndices) THEN userIndices[i + 1] - 1 ELSE Len(old)
            IN IF last > userIndices[i]
               THEN /\ j + 1 <= Len(new)
                    /\ IsSummaryMessage(new[j + 1])
                    /\ RoundsAsClaimed(old, userIndices, i + 1, new, j + 2)
               ELSE RoundsAsClaimed(old, userIndices, i + 1, new, j + 1)

\* C2: after a pass the history is the system message, then for each round
\* its user message followed by exactly one summary message if and only if
\* the round had a message after its user message; no assistant or tool
\* message remains.
C2_RebuiltShape ==
    [][PassRebuilds =>
         /\ messages'[1] = messages[1]
         /\ \A k \in 1..Len(messages') : messages'[k].role \notin {"assistant", "tool"}
         /\ RoundsAsClaimed(messages,
                            SelectSeq([k \in 1..Len(messages) |-> k],
                                      LAMBDA k : k > 1 /\ messages[k].role = "user"),
                            1, messages', 2)]_vars

\* C3: the tool calls of a response are dispatched one at a time in list
\* order: at most one execute is in flight, it is the last one started, and
\* the tool-role messages appended so far in the step are those of the calls
\* before it, in order, right after the assistant message that carries them.
C3_SequentialDispatch ==
    pc = "tools" =>
        LET settled == (toolIdx - 1) - Cardinality(inflight)
            base == Len(messages) - settled
        IN /\ Cardinality(inflight) <= 1
           /\ inflight \subseteq {toolIdx - 1}
           /\ base >= 1
           /\ messages[base].role = "assistant"
           /\ messages[base].tool_calls = Some(curCalls)
           /\ \A j \in 1..settled :
                 /\ messages[base + j].role = "tool"
                 /\ messages[base + j].tool_call_id = curCalls[j].id

\* C3 witness: the three calls A, B, C of one response have all been
\* dispatched and their messages stand in that order.
C3_Witness ==
    /\ pc = "tools"
    /\ Len(curCalls) = 3
    /\ toolIdx = 4
    /\ inflight = {}
    /\ [j \in 1..3 |-> messages[Len(messages) - 3 + j].tool_call_id] = <<"A", "B", "C">>


\* The last entry of the log is the runFinished event of the run.
RunIsFinished == Len(log) > 0 /\ log[Len(log)].name = "runFinished"

\* A response that carries no tool calls: the list is absent or empty.
CarriesNoToolCalls(response) ==
    response.tool_calls = None \/ response.tool_calls = Some(<<>>)

\* C4: a response without tool calls ends the run at once: one assistant
\* message with the response's content is appended to the history the LLM was
\* given, runFinished{ok: true, msg: content} is emitted and nothing follows;
\* from [system, user "hi"] and the content "hello" the history ends as
\* [system, user "hi", assistant "hello"].
C4_TerminalSuccess ==
    [][(/\ Len(log') > Len(log)
        /\ log'[Len(log) + 1].name = "llmResponseReceived"
        /\ CarriesNoToolCalls(log'[Len(log) + 1].response))
       => LET response == log'[Len(log) + 1].response IN
          /\ messages = request
          /\ Len(messages') = Len(messages) + 1
          /\ SubSeq(messages', 1, Len(messages)) = messages
          /\ messages'[Len(messages')].role = "assistant"
          /\ messages'[Len(messages')].content = response.content
          /\ Len(log') = Len(log) + 2
          /\ SubSeq(log', 1, Len(log)) = log
          /\ log'[Len(log')].name = "runFinished"
          /\ log'[Len(log')].ok
          /\ log'[Len(log')].msg = response.content
          /\ pc' = "idle"
          /\ (/\ [k \in 1..Len(messages) |-> <<messages[k].role, messages[k].content>>]
                   = <<<<"system", systemPrompt>>, <<"user", "hi">>>>
              /\ response.content = "hello")
             => [k \in 1..Len(messages') |-> <<messages'[k].role, messages'[k].content>>]
                   = <<<<"system", systemPrompt>>, <<"user", "hi">>,
                       <<"assistant", "hello">>>>]_vars

\* C4 witness: the run on [system, user "hi"] has ended with ok and "hello".
C4_Witness ==
    /\ RunIsFinished
    /\ log[Len(log)].ok
    /\ log[Len(log)].msg = "hello"
    /\ [k \in 1..Len(messages) |-> <<messages[k].role, messages[k].content>>]
          = <<<<"system", systemPrompt>>, <<"user", "hi">>, <<"assistant", "hello">>>>

IsStepLLMCall(e) == e.name = "llm.generate"
IsToolBearingResponse(e) ==
    e.name = "llmResponseReceived" /\ ~CarriesNoToolCalls(e.response)
IsToolCallFinished(e) == e.name = "toolCallFinished"

RECURSIVE ToolCallsRequested(_)
ToolCallsRequested(lg) ==
    IF Len(lg) = 0 THEN 0
    ELSE (IF IsToolBearingResponse(Head(lg)) THEN Len(Get(Head(lg).response.tool_calls)) ELSE 0)
         + ToolCallsRequested(Tail(lg))

BudgetMessage == "Task couldn't be completed after " \o ToString(maxSteps) \o " steps."

\* C5: a run makes at most maxSteps step-level LLM calls; a finished run whose
\* maxSteps responses all carried tool calls has dispatched every one of them
\* and ended with runFinished{ok: false} and the step-budget message, and no
\* other run ends with that message.
C5_StepBudget ==
    /\ LogCount(IsStepLLMCall) <= maxSteps
    /\ RunIsFinished =>
         LET fin == log[Len(log)]
             exhausted == /\ LogCount(IsStepLLMCall) = maxSteps
                          /\ LogCount(IsToolBearingResponse) = maxSteps
         IN /\ exhausted => /\ ~fin.ok
                            /\ fin.msg = BudgetMessage
                            /\ LogCount(IsToolCallFinished) = ToolCallsRequested(log)
            /\ fin.msg = BudgetMessage => exhausted /\ ~fin.ok /\ step = maxSteps

\* C5 witness: a run of two steps, both with tool calls, ended on the budget.
C5_Witness ==
    /\ RunIsFinished
    /\ maxSteps = 2
    /\ log[Len(log)].msg = "Task couldn't be completed after 2 steps."
    /\ LogCount(IsToolCallFinished) = 6

\* C6: with retry configured (maxRetries = 3), a run ended by a failing LLM
\* request ends with the retries-exhausted error that reports 4 attempts.
C6_RetriesExhaustedReported ==
    \A i \in 1..Len(log) :
        (log[i].name = "runFinished" /\ ~log[i].ok /\ log[i].msg # BudgetMessage) =>
            /\ clientRetryConfig.enabled
            /\ clientRetryConfig.maxRetries = 3
            /\ IsRetryExhausted(Get(log[i].error))
            /\ Get(log[i].error).attempts = 4


IsInvoke(e) == e.name = "invoke"
IsFailed(e) == e.name = "failed"
IsSucceeded(e) == e.name = "succeeded"
IsWait(e) == e.name = "wait"
RCount(P(_)) == Len(SelectSeq(rlog, P))

\* C7: for maxRetries >= 0 the wrapper makes at most maxRetries + 1 attempts;
\* it returns the value of the first attempt that succeeds and attempts
\* nothing after it; when maxRetries + 1 attempts have failed it throws
\* RetryExhaustedError carrying the last attempt's error and
\* attempts = maxRetries + 1, and it throws in no other case.
C7_AttemptsBounded ==
    rcfg.config.maxRetries >= 0 =>
        LET maxRetries == rcfg.config.maxRetries
            failures == SelectSeq(rlog, IsFailed)
        IN /\ RCount(IsInvoke) <= maxRetries + 1
           /\ RCount(IsSucceeded) <= 1
           /\ RCount(IsSucceeded) = 1 <=> rpc = "returned"
           /\ rpc = "returned" =>
                 /\ rlog[Len(rlog)].name = "succeeded"
                 /\ rout = Some([kind |-> "return", value |-> rlog[Len(rlog)].value])
                 /\ RCount(IsInvoke) = Len(failures) + 1
           /\ Len(failures) = maxRetries + 1 <=> rpc = "thrown"
           /\ rpc = "thrown" =>
                 /\ RCount(IsInvoke) = maxRetries + 1
                 /\ Get(rout).kind = "throw"
                 /\ Get(rout).error.name = "RetryExhaustedError"
                 /\ Get(rout).error.lastException = failures[Len(failures)].exception
                 /\ Get(rout).error.attempts = maxRetries + 1

\* C7 witness: maxRetries = 3, four attempts failed, the last with e2 after
\* e1, and RetryExhaustedError reports 4 attempts and e2.
C7_Witness ==
    /\ rcfg.config.maxRetries = 3
    /\ rpc = "thrown"
    /\ RCount(IsInvoke) = 4
    /\ SelectSeq(rlog, IsFailed)[3].exception.message = "e1"
    /\ Get(rout).error.attempts = 4
    /\ Get(rout).error.lastException.message = "e2"

\* b to the power n, as the product of n factors b
Power(b, n) ==
    LET RECURSIVE prod(_)
        prod(k) == IF k = 0 THEN 1 ELSE prod(k - 1) * b
    IN prod(n)

DefaultDelaysMs == <<1000, 2000, 4000, 8000, 16000, 32000, 60000>>

\* C8: the wait that follows failed attempt i (from 0) lasts
\* min(initialDelay * exponentialBase^i, maxDelay) seconds; for
\* initialDelay = 1, exponentialBase = 2, maxDelay = 60 the waits after
\* attempts 0..6 are 1, 2, 4, 8, 16, 32, 60 seconds.
C8_BackoffDelay ==
    LET waits == SelectSeq(rlog, IsWait)
        config == rcfg.config
    IN \A k \in 1..Len(waits) :
          LET i == k - 1
              unclamped == config.initialDelay * Power(config.exponentialBase, i)
          IN /\ waits[k].ms =
                  1000 * (IF unclamped < config.maxDelay THEN unclamped ELSE config.maxDelay)
             /\ (config.initialDelay = 1 /\ config.exponentialBase = 2
                 /\ config.maxDelay = 60 /\ k <= 7)
                => waits[k].ms = DefaultDelaysMs[k]

\* C8 witness: attempts 0..6 failed under (1, 2, 60) and seven waits were made,
\* the last one clamped to 60 seconds.
C8_Witness ==
    /\ rcfg.config.initialDelay = 1
    /\ rcfg.config.exponentialBase = 2
    /\ rcfg.config.maxDelay = 60
    /\ Len(SelectSeq(rlog, IsWait)) = 7
    /\ SelectSeq(rlog, IsWait)[7].ms = 60000

RegisteredToolNames == {Tools[i].name : i \in DOMAIN Tools}

\* The message the history gains for a settled tool call
ToolRoleMessage(content, tc) ==
    [role |-> "tool", content |-> content, thinking |-> "", tool_calls |-> None,
     tool_call_id |-> tc.id, name |-> tc.function.name]

\* The tool phase of a step is left only for the next pass of the step loop,
\* after every call of the turn has got its tool message.
TurnRunsToItsEnd ==
    (pc = "tools" /\ pc' # "tools") =>
        /\ pc' = "loop"
        /\ step' = step + 1
        /\ inflight = {}
        /\ Len(messages') > Len(curCalls)
        /\ \A j \in 1..Len(curCalls) :
              LET m == messages'[Len(messages') - Len(curCalls) + j]
              IN m.role = "tool" /\ m.tool_call_id = curCalls[j].id

\* C9: a call to a tool that is not registered appends the tool message
\* "Error: Unknown tool: <name>" with the call's id, raises nothing, leaves the
\* agent dispatching the rest of the turn, and the turn goes on to the next step.
C9_UnknownToolReported ==
    [][/\ (/\ pc = "tools"
           /\ inflight = {}
           /\ toolIdx <= Len(curCalls)
           /\ curCalls[toolIdx].function.name \notin RegisteredToolNames)
          => LET tc == curCalls[toolIdx] IN
             /\ messages' = Append(messages,
                   ToolRoleMessage("Error: Unknown tool: " \o tc.function.name, tc))
             /\ pc' = "tools"
             /\ toolIdx' = toolIdx + 1
             /\ curCalls' = curCalls
             /\ step' = step
             /\ log'[Len(log')].name = "toolCallFinished"
             /\ ~log'[Len(log')].ok
       /\ TurnRunsToItsEnd]_vars

\* C9 witness: "foo" was answered with the unknown-tool message, call C was
\* dispatched after it and the next step has asked the LLM again.
C9_Witness ==
    /\ pc = "llm"
    /\ step = 1
    /\ Len(messages) >= 3
    /\ messages[Len(messages) - 1] = ToolRoleMessage("Error: Unknown tool: foo", CallB)
    /\ messages[Len(messages)].tool_call_id = CallC.id

\* C10: when execute throws, the error becomes a failed ToolResult naming the
\* error's name, message and stack, a tool message "Error: ..." is appended for
\* that call, nothing escapes, the rest of the turn is dispatched and the turn
\* goes on to the next step.
C10_ToolThrowContained ==
    [][/\ (/\ Len(log') > Len(log)
           /\ log'[Len(log) + 1].name = "tool.threw")
          => LET err == log'[Len(log) + 1].error
                 k == CHOOSE j \in inflight : TRUE
                 finished == log'[Len(log')]
                 text == "Tool execution failed: " \o err.name \o ": " \o err.message
                         \o "\n\nTraceback:\n"
                         \o (IF err.stack = None THEN "" ELSE err.stack[1])
             IN /\ inflight = {k}
                /\ finished.name = "toolCallFinished"
                /\ finished.toolCallId = curCalls[k].id
                /\ ~finished.ok
                /\ finished.result = [success |-> FALSE, content |-> "", error |-> text]
                /\ messages' = Append(messages, ToolRoleMessage("Error: " \o text, curCalls[k]))
                /\ pc' = "tools"
                /\ step' = step
                /\ toolIdx' = toolIdx
                /\ curCalls' = curCalls
                /\ inflight' = {}
       /\ TurnRunsToItsEnd]_vars

\* C10 witness: call A threw TypeError "boom"; its error message stands in the
\* history, B and C were dispatched after it and the next step has begun.
C10_Witness ==
    /\ pc = "llm"
    /\ step = 1
    /\ Len(messages) >= 4
    /\ messages[Len(messages) - 2] =
          ToolRoleMessage("Error: Tool execution failed: TypeError: boom\n\nTraceback:\nat execute",
                          CallA)
    /\ messages[Len(messages) - 1].tool_call_id = CallB.id
    /\ messages[Len(messages)].tool_call_id = CallC.id


(***************************************************************************)
(* The summarizeMessages() call of a step                                  *)
(***************************************************************************)
\* A step calls summarizeMessages() in this state, and the flag is clear.
CallsSummarizeFlagClear == pc = "loop" /\ step < maxSteps /\ ~skipNextTokenCheck

\* What the log gains in this step
NewEntries == SubSeq(log', Len(log) + 1, Len(log'))

\* The part of NewEntries the summarizeMessages() call itself wrote: what
\* stands before the stepStarted event of the step.
RECURSIVE BeforeStepStarted(_)
BeforeStepStarted(entries) ==
    IF Len(entries) = 0 \/ Head(entries).name = "stepStarted" THEN <<>>
    ELSE <<Head(entries)>> \o BeforeStepStarted(Tail(entries))

IsSummarizeStarted(e) == e.name = "summarizeMessagesStarted"
PassStarts == Len(SelectSeq(BeforeStepStarted(NewEntries), IsSummarizeStarted)) = 1

LocalEstimate == estimateTokens(messages, tokenizerWorks)
OverLimit == LocalEstimate > tokenLimit \/ apiTotalTokens > tokenLimit

\* C11 as stated: with the flag clear a pass starts iff the local estimate or
\* the API total exceeds tokenLimit, and under the limit the call changes
\* nothing and emits no event at all.
C11_TriggerNoEvent ==
    [][CallsSummarizeFlagClear =>
          /\ PassStarts <=> OverLimit
          /\ ~OverLimit => /\ messages' = messages
                           /\ skipNextTokenCheck' = skipNextTokenCheck
                           /\ apiTotalTokens' = apiTotalTokens
                           /\ BeforeStepStarted(NewEntries) = <<>>]_vars

\* C11 amended: as above, but under the limit the call emits no event other
\* than tokenEstimationFallbacked, which estimateTokens() emits exactly when
\* the tokenizer failed.
C11_Trigger ==
    [][CallsSummarizeFlagClear =>
          /\ PassStarts <=> OverLimit
          /\ ~OverLimit =>
                /\ messages' = messages
                /\ skipNextTokenCheck' = skipNextTokenCheck
                /\ apiTotalTokens' = apiTotalTokens
                /\ \A k \in 1..Len(BeforeStepStarted(NewEntries)) :
                      BeforeStepStarted(NewEntries)[k].name = "tokenEstimationFallbacked"
                /\ Len(BeforeStepStarted(NewEntries)) = (IF tokenizerWorks THEN 0 ELSE 1)]_vars

\* C11 witnesses: a pass was started on the local estimate alone (API total 0),
\* and one on the API total alone (local estimate within the limit).
C11_Witness ==
    /\ \E k \in 1..Len(log) :
          /\ log[k].name = "summarizeMessagesStarted"
          /\ log[k].localEstimatedTokens > tokenLimit
          /\ log[k].apiReportedTokens = 0

C11_WitnessApiAlone ==
    /\ \E k \in 1..Len(log) :
          /\ log[k].name = "summarizeMessagesStarted"
          /\ log[k].localEstimatedTokens <= tokenLimit
          /\ log[k].apiReportedTokens > tokenLimit


IsRebuildReport(e) == e.name = "summarizeMessagesFinished" /\ e.ok
\* This step ends a pass that rebuilt the history.
Rebuilds == Len(SelectSeq(NewEntries, IsRebuildReport)) > 0

\* A step calls summarizeMessages() in this state, and the flag is set.
CallsSummarizeFlagSet == pc = "loop" /\ step < maxSteps /\ skipNextTokenCheck

\* C12: a rebuilding pass sets the suppression flag; the summarizeMessages()
\* call that finds it set clears it and does nothing else, over the limit or
\* not; with the flag clear the trigger is evaluated again; the flag changes in
\* no other way and a rebuilding pass begins only with the flag clear, so no
\* two consecutive calls both rebuild.
C12_OneShotSuppression ==
    [][/\ Rebuilds => ~skipNextTokenCheck /\ skipNextTokenCheck'
       /\ CallsSummarizeFlagSet =>
             /\ ~skipNextTokenCheck'
             /\ messages' = messages
             /\ apiTotalTokens' = apiTotalTokens
             /\ BeforeStepStarted(NewEntries) = <<>>
             /\ ~Rebuilds
       /\ CallsSummarizeFlagClear => (PassStarts <=> OverLimit)
       /\ skipNextTokenCheck' # skipNextTokenCheck =>
             Rebuilds \/ CallsSummarizeFlagSet]_vars

\* C12 witness: the first call of a run found the flag set and returned at
\* once although the history is over the limit; the flag is clear again.
C12_Witness ==
    /\ pc = "llm"
    /\ tokenizerWorks
    /\ log = <<EvStepStarted(1), CallLLM>>
    /\ OverLimit
    /\ ~skipNextTokenCheck


\* The history holds no role=user message after the system message.
NoUserMessage == \A k \in 2..Len(messages) : messages[k].role # "user"

IsSummaryLLMCall(e) == e.name = "summary.generate"
IsSummarizeEvent(e) ==
    e.name \in {"summarizeMessagesStarted", "summarizeMessagesFinished"}

\* C13: a triggered summarizeMessages() call on a history without user
\* messages emits summarizeMessagesStarted and summarizeMessagesFinished
\* {ok: false}, calls no summary LLM, leaves history, flag and API total as
\* they were, and the step goes on to its LLM call with that history.
C13_NoUserMessageNoPass ==
    [][(CallsSummarizeFlagClear /\ OverLimit /\ NoUserMessage) =>
          LET reported == SelectSeq(BeforeStepStarted(NewEntries), IsSummarizeEvent) IN
          /\ Len(reported) = 2
          /\ reported[1].name = "summarizeMessagesStarted"
          /\ reported[2].name = "summarizeMessagesFinished"
          /\ ~reported[2].ok
          /\ Len(SelectSeq(NewEntries, IsSummaryLLMCall)) = 0
          /\ messages' = messages
          /\ skipNextTokenCheck' = skipNextTokenCheck
          /\ apiTotalTokens' = apiTotalTokens
          /\ pc' = "llm"
          /\ request' = messages
          /\ NewEntries[Len(NewEntries)] = CallLLM
          /\ NewEntries[Len(NewEntries) - 1].name = "stepStarted"]_vars

\* C13 witness: the pass was refused for want of a user message and the LLM
\* has answered the step's call all the same.
C13_Witness ==
    /\ \E k \in 1..Len(log) :
          log[k].name = "summarizeMessagesFinished" /\ ~log[k].ok
    /\ \E k \in 1..Len(log) : log[k].name = "llmResponseReceived"
    /\ ~skipNextTokenCheck


\* This step begins with createSummary's LLM call failing.
SummaryCallFails ==
    /\ Len(NewEntries) > 0
    /\ NewEntries[1].name = "createSummaryFinished"
    /\ ~NewEntries[1].ok

\* The list the pass is building after this step: the history itself once the
\* pass has installed it.
ListBuilt == IF pc' = "summary" THEN newMessages' ELSE messages'

IsRunFinished(e) == e.name = "runFinished"

\* C14: when the summary LLM call of a round fails, createSummaryFinished
\* {ok: false} is emitted, the pass and the run go on, and the round's summary
\* message is pushed with the round's raw transcript as its text, which holds
\* every assistant text, every called tool's name and every tool output of the
\* round; what the pass has pushed stays in the list it installs.
C14_SummaryFailureFallsBack ==
    [][/\ SummaryCallFails =>
             LET round == executionMessagesOf(messages, userIndicesOf(messages), sumRound)
                 pushed == ListBuilt[Len(newMessages) + 1]
             IN /\ pc = "summary"
                /\ NewEntries[1].roundNum = sumRound
                /\ pc' \in {"summary", "llm"}
                /\ Len(SelectSeq(NewEntries, IsRunFinished)) = 0
                /\ Len(ListBuilt) > Len(newMessages)
                /\ pushed.role = "user"
                /\ pushed.content = "[Assistant Execution Summary]\n\n"
                                    \o summaryContentOf(round, sumRound)
                /\ Len(round) > 0
                /\ \A k \in 1..Len(round) :
                      /\ round[k].role \in {"assistant", "tool"}
                      /\ Includes(pushed.content, round[k].content)
                      /\ round[k].role = "assistant" /\ round[k].tool_calls # None =>
                            \A c \in 1..Len(round[k].tool_calls[1]) :
                               Includes(pushed.content,
                                        round[k].tool_calls[1][c].function.name)
       /\ pc = "summary" => SubSeq(ListBuilt, 1, Len(newMessages)) = newMessages]_vars

\* C14 witness: the pass is over and the history holds the raw transcript of a
\* round with tool calls, after that round's summary call failed.
C14_Witness ==
    /\ pc = "llm"
    /\ \E k \in 1..Len(log) : log[k].name = "createSummaryFinished" /\ ~log[k].ok
    /\ \E k \in 2..Len(messages) :
          /\ messages[k].role = "user"
          /\ Includes(messages[k].content, "Called tools: echo, foo, echo")
          /\ Includes(messages[k].content, "Tool returned: Error: Unknown tool: foo")


\* C15: every pass that fired on a local estimate above tokenLimit reports a
\* new local estimate strictly below the old one.
C15_PassShrinksEstimate ==
    \A k \in 1..Len(log) :
        (log[k].name = "summarizeMessagesFinished" /\ log[k].ok
         /\ log[k].oldTokens > tokenLimit)
        => log[k].newTokens < log[k].oldTokens


(***************************************************************************)
(* estimateTokens() between appends: a ContextManager whose history grows  *)
(* by its three append methods, with an estimate taken before each append  *)
(* and after the last; the tokenizer may work or fail on every call.       *)
(***************************************************************************)
EstimateReturned(value, tokenizerOk) ==
    [name |-> "estimateTokens", value |-> value, tokenizer |-> tokenizerOk]

\* contextManager.estimateTokens()
EstimateCall(tokenizerOk) ==
    /\ pc = "estimate"
    /\ log' = log \o EstimateEvents(tokenizerOk)
                  \o <<EstimateReturned(estimateTokens(messages, tokenizerOk), tokenizerOk)>>
    /\ pc' = "append"
    /\ UNCHANGED <<messages, apiTotalTokens, skipNextTokenCheck, maxSteps, step, curCalls,
                   toolIdx, inflight, sumRound, newMessages, summaryCount, oldTokens,
                   request, nInputs, nLLM, tokenizerWorks, stepStart, retryVars, copyVars, emitterVars, dbVars>>

AppendTexts == {"", "hi"}
AppendResults == {ToolResult(TRUE, "ok", NullText), UnknownToolResult("foo")}

\* What all three appends leave alone
AppendFrame ==
    /\ pc = "append"
    /\ Len(messages) < MaxHistory
    /\ pc' = "estimate"
    /\ UNCHANGED <<apiTotalTokens, skipNextTokenCheck, maxSteps, step, curCalls,
                   toolIdx, inflight, sumRound, newMessages, summaryCount, oldTokens,
                   request, log, nInputs, nLLM, tokenizerWorks, stepStart, retryVars, copyVars, emitterVars, dbVars>>

AppendUser(content) ==
    /\ AppendFrame
    /\ messages' = addUserMessage(messages, content)

AppendAssistant(response) ==
    /\ AppendFrame
    /\ messages' = addAssistantMessage(messages, response)

AppendTool(result) ==
    /\ AppendFrame
    /\ messages' = addToolMessage(messages, result, "A", "echo")

\* new ContextManager(...), about to be asked for its first estimate
EstimateInit ==
    /\ messages = <<SystemMessage>>
    /\ apiTotalTokens = 0
    /\ skipNextTokenCheck = FALSE
    /\ pc = "estimate"
    /\ step = 0
    /\ curCalls = <<>>
    /\ toolIdx = 0
    /\ inflight = {}
    /\ sumRound = 0
    /\ newMessages = <<>>
    /\ summaryCount = 0
    /\ oldTokens = 0
    /\ request = <<>>
    /\ log = <<>>
    /\ nInputs = 0
    /\ nLLM = 0
    /\ stepStart = <<>>
    /\ maxSteps = 0
    /\ tokenizerWorks = TRUE
    /\ RetryIdle

EstimateNext ==
    \/ \E tokenizerOk \in BOOLEAN : EstimateCall(tokenizerOk)
    \/ \E content \in AppendTexts : AppendUser(content)
    \/ \E response \in StepResponses : AppendAssistant(response)
    \/ \E result \in AppendResults : AppendTool(result)

SpecEstimate == EstimateInit /\ [][EstimateNext]_vars

IsEstimate(e) == e.name = "estimateTokens"
Estimates == SelectSeq(log, IsEstimate)

\* C16: the estimate taken after an append is never below the estimate taken
\* before it, whichever path either call took.
C16_EstimateMonotone ==
    \A k \in 1..(Len(Estimates) - 1) : Estimates[k].value <= Estimates[k + 1].value

\* The same for two calls that took the same path (both the tokenizer, or both
\* the character count).
C16_SamePathMonotone ==
    \A k \in 1..(Len(Estimates) - 1) :
        Estimates[k].tokenizer = Estimates[k + 1].tokenizer
        => Estimates[k].value <= Estimates[k + 1].value


(***************************************************************************)
(* How runs end                                                            *)
(***************************************************************************)
\* This step is the step-level LLM call failing: the run was waiting for the
\* LLM and the step reports the end of the run with ok = false.
LLMCallFails ==
    /\ pc = "llm"
    /\ Len(NewEntries) > 0
    /\ NewEntries[1].name = "runFinished"
    /\ ~NewEntries[1].ok

\* The entries the current step's summarizeMessages() call wrote: the stretch
\* of summarization entries that ends just before the last stepStarted.
SummarizeEntryNames ==
    {"tokenEstimationFallbacked", "summarizeMessagesStarted", "summarizeMessagesFinished",
     "createSummaryFinished", "summary.generate"}

RECURSIVE LastStepStarted(_)
LastStepStarted(k) ==
    IF k = 0 \/ log[k].name = "stepStarted" THEN k ELSE LastStepStarted(k - 1)

RECURSIVE StretchStart(_)
StretchStart(k) ==
    IF k = 0 \/ log[k].name \notin SummarizeEntryNames THEN k + 1 ELSE StretchStart(k - 1)

\* The current step's summarizeMessages() call rebuilt the history.
StepRebuilt ==
    LET p == LastStepStarted(Len(log)) IN
    \E k \in StretchStart(p - 1)..(p - 1) : IsRebuildReport(log[k])

\* C17 as stated: a failing LLM call ends the run with runFinished
\* {ok: false}, nothing follows, and the history is the one the step began with.
C17_FailureLeavesStepStartHistory ==
    [][LLMCallFails =>
          /\ Len(NewEntries) = 1
          /\ pc' = "idle"
          /\ messages' = stepStart]_vars

\* C17 amended: a failing LLM call ends the run with runFinished {ok: false},
\* nothing follows, and the step has appended nothing: the history is the one
\* that was sent to the LLM, which is the one the step began with unless the
\* step's own summarizeMessages() call rebuilt it.
C17_FailureAppendsNothing ==
    [][LLMCallFails =>
          /\ Len(NewEntries) = 1
          /\ pc' = "idle"
          /\ messages' = messages
          /\ messages' = request
          /\ ~StepRebuilt => messages' = stepStart
          /\ StepRebuilt => /\ IsSubsequence(UserMessagesOf(stepStart), UserMessagesOf(messages'))
                            /\ \A k \in 1..Len(messages') :
                                  messages'[k].role \in {"system", "user"}]_vars

\* C17 witness: the LLM call of a step failed after the step's pass had
\* rebuilt the history, and run() has returned with the rebuilt history.
C17_Witness ==
    /\ pc = "idle"
    /\ RunIsFinished
    /\ ~log[Len(log)].ok
    /\ log[Len(log)].msg = "LLM call failed."
    /\ StepRebuilt
    /\ messages = request
    /\ messages # stepStart


IsAbsorbedFailure(e) ==
    \/ e.name = "tokenEstimationFallbacked"
    \/ e.name \in {"summarizeMessagesFinished", "createSummaryFinished", "toolCallFinished"}
       /\ ~e.ok
    \/ e.name = "tool.threw"

IsLLMResponse(e) == e.name = "llmResponseReceived"

\* C18: runFinished {ok: false} is emitted only by a step in which the pending
\* LLM call failed, or by the loop test finding step = maxSteps; a step that
\* meets a tokenizer failure, a refused or failed summarization, an unknown
\* tool or a throwing tool emits no runFinished and does not return from run().
C18_OnlyLLMFailureOrBudgetEndsRun ==
    [][/\ (Len(NewEntries) > 0 /\ NewEntries[Len(NewEntries)].name = "runFinished"
           /\ ~NewEntries[Len(NewEntries)].ok)
          => \/ /\ pc = "llm"
                /\ Len(NewEntries) = 1
                /\ NewEntries[1].error # None
                /\ NewEntries[1].msg # BudgetMessage
             \/ /\ pc = "loop"
                /\ step = maxSteps
                /\ Len(NewEntries) = 1
                /\ NewEntries[1].msg = BudgetMessage
       /\ Len(SelectSeq(NewEntries, IsAbsorbedFailure)) > 0
          => /\ Len(SelectSeq(NewEntries, IsRunFinished)) = 0
             /\ pc' # "idle"
       /\ Len(SelectSeq(NewEntries, IsRunFinished)) > 0 <=> (pc # "idle" /\ pc' = "idle")]_vars

\* C18 witness: a run met a tokenizer failure, a failed summary call, an
\* unknown tool and a throwing tool, and ended only on its step budget.
C18_Witness ==
    /\ RunIsFinished
    /\ log[Len(log)].msg = BudgetMessage
    /\ \E k \in 1..Len(log) : log[k].name = "tokenEstimationFallbacked"
    /\ \E k \in 1..Len(log) : log[k].name = "createSummaryFinished" /\ ~log[k].ok
    /\ \E k \in 1..Len(log) :
          log[k].name = "toolCallFinished" /\ log[k].functionName = "foo" /\ ~log[k].ok
    /\ \E k \in 1..Len(log) : log[k].name = "tool.threw"


(***************************************************************************)
(* Invariants of the history                                               *)
(***************************************************************************)
\* C19: the history is never empty and its first message is the role=system
\* message the constructor made.
C19_SystemMessageFirst ==
    /\ Len(messages) >= 1
    /\ messages[1].role = "system"
    /\ messages[1].content = systemPrompt
    /\ messages[1] = SystemMessage

\* C19 witness: a pass has rebuilt a history that had been grown by user,
\* assistant and tool messages, and the system message still stands first.
C19_Witness ==
    /\ skipNextTokenCheck
    /\ Len(messages) >= 3
    /\ messages[1] = SystemMessage
    /\ \E k \in 1..Len(stepStart) : stepStart[k].role = "tool"
    /\ \E k \in 1..Len(log) : IsRebuildReport(log[k])


\* C20: every tool-role message of the history stands after an assistant
\* message whose tool_calls hold the tool message's tool_call_id.
C20_ToolMessagesAnswerACall ==
    \A k \in 1..Len(messages) :
        messages[k].role = "tool" =>
            \E j \in 1..(k - 1) :
                /\ messages[j].role = "assistant"
                /\ messages[j].tool_calls # None
                /\ \E c \in 1..Len(messages[j].tool_calls[1]) :
                      messages[j].tool_calls[1][c].id = messages[k].tool_call_id

\* C20 witness: the three calls of a turn have been answered, one of them by
\* an unknown-tool error, and the next step has begun.
C20_Witness ==
    /\ pc = "llm"
    /\ step = 1
    /\ Len(SelectSeq(messages, LAMBDA m : m.role = "tool")) >= 3
    /\ \E k \in 1..Len(messages) :
          messages[k].role = "tool" /\ messages[k].tool_call_id = "B"

(***************************************************************************)
(* External calls in flight                                                *)
(***************************************************************************)
\* The entries of the log that begin an external call, and those that end one:
\* the step's LLM call ends with llmResponseReceived or with the runFinished of
\* the catch block, a summary call with createSummaryFinished, an execute with
\* its return or its throw.
OpensCall(e) == e.name \in {"llm.generate", "summary.generate", "tool.execute"}
ClosesCall(e) ==
    \/ e.name \in {"llmResponseReceived", "createSummaryFinished", "tool.returned",
                   "tool.threw"}
    \/ e.name = "runFinished" /\ ~e.ok /\ e.msg # BudgetMessage

\* The number of external calls begun and not yet ended after the first k
\* entries of the log.
PendingCalls(k) ==
    Cardinality({i \in 1..k : OpensCall(log[i])})
    - Cardinality({i \in 1..k : ClosesCall(log[i])})

\* The entry that ends the call begun by entry i is the next call entry.
ClosedInKind(i, j) ==
    CASE log[i].name = "llm.generate" -> log[j].name \in {"llmResponseReceived", "runFinished"}
      [] log[i].name = "summary.generate" -> log[j].name = "createSummaryFinished"
      [] log[i].name = "tool.execute" -> log[j].name \in {"tool.returned", "tool.threw"}

\* C21: at every moment of a run at most one external call is in flight: a
\* step LLM request, a summary LLM request and a tool execution never overlap
\* with each other or with another call of the same kind; each call that was
\* begun is ended before the next one begins.
C21_OneCallInFlight ==
    /\ \A k \in 0..Len(log) : PendingCalls(k) \in {0, 1}
    /\ \A i \in 1..Len(log) :
          OpensCall(log[i]) =>
              \A j \in (i + 1)..Len(log) :
                  (\A m \in (i + 1)..(j - 1) : ~OpensCall(log[m]) /\ ~ClosesCall(log[m]))
                  /\ (OpensCall(log[j]) \/ ClosesCall(log[j]))
                  => ClosesCall(log[j]) /\ ClosedInKind(i, j)
    /\ Cardinality(inflight) <= 1
    /\ PendingCalls(Len(log)) =
          Cardinality(inflight) + (IF pc \in {"llm", "summary"} THEN 1 ELSE 0)

\* C21 witness: in one run a summary call and two step-level LLM calls were
\* made and ended, and an execute of the second turn is now in flight.
C21_Witness ==
    /\ pc = "tools"
    /\ Cardinality(inflight) = 1
    /\ \E k \in 1..Len(log) : log[k].name = "summary.generate"
    /\ Cardinality({k \in 1..Len(log) : log[k].name = "llm.generate"}) = 2
    /\ \E k \in 1..Len(log) : log[k].name = "tool.threw"

(***************************************************************************)
(* Who changes the history, and when                                       *)
(***************************************************************************)
\* The history gains exactly one message of this role in this step.
AppendsOne(role) ==
    /\ Len(messages') = Len(messages) + 1
    /\ SubSeq(messages', 1, Len(messages)) = messages
    /\ messages'[Len(messages')].role = role

\* C22: while a summarization pass awaits a round summary the history is the
\* one the pass read when it began and no step changes it; the pass then
\* installs the list it built, which holds every user message of that history;
\* every other change of the history is one append, made by the caller between
\* two runs or by run() in the stretch that follows an await.
C22_NoInterleavedMutation ==
    [][/\ pc = "summary" =>
             /\ messages = stepStart
             /\ pc' = "summary" => messages' = messages
             /\ pc' # "summary" =>
                   /\ PassRebuilds
                   /\ SubSeq(messages', 1, Len(newMessages)) = newMessages
                   /\ IsSubsequence(UserMessagesOf(stepStart), UserMessagesOf(messages'))
       /\ messages' # messages =>
             \/ pc = "idle" /\ pc' = "idle" /\ AppendsOne("user")
             \/ pc = "llm" /\ AppendsOne("assistant")
             \/ pc = "tools" /\ AppendsOne("tool")
             \/ pc \in {"loop", "summary"} /\ PassRebuilds]_vars

\* C22 witness: a pass awaited the summary of the first round of a history
\* that held a second user message, and has installed a list that holds both.
C22_Witness ==
    /\ pc = "llm"
    /\ skipNextTokenCheck
    /\ \E k \in 1..Len(log) : log[k].name = "createSummaryFinished"
    /\ Len(UserMessagesOf(stepStart)) = 2
    /\ stepStart[Len(stepStart)].role = "user"
    /\ IsSubsequence(UserMessagesOf(stepStart), UserMessagesOf(messages))
    /\ messages[Len(messages)] = stepStart[Len(stepStart)]

(***************************************************************************)
(* The retry observer                                                      *)
(***************************************************************************)
IsOnRetry(e) == e.name = "onRetry"

\* The number of attempts begun within the first k entries of rlog
AttemptsBegun(k) == Cardinality({i \in 1..k : rlog[i].name = "invoke"})

\* C23: with an observer given, every failed attempt that is retried is
\* followed at once by one observer call carrying that attempt's error and its
\* 1-based number, and that call by the wait; the observer is called nowhere
\* else (not after a success, not after the failure that exhausts the
\* retries), so at most maxRetries times.
C23_ObserverPerRetriedFailure ==
    rcfg.hasOnRetry =>
        /\ \A k \in 1..Len(rlog) :
              rlog[k].name = "failed" =>
                  IF k = Len(rlog)
                  THEN /\ rpc = "thrown"
                       /\ AttemptsBegun(k) = rcfg.config.maxRetries + 1
                  ELSE /\ k + 2 <= Len(rlog)
                       /\ rlog[k + 1] = [name |-> "onRetry", exception |-> rlog[k].exception,
                                         attempt |-> AttemptsBegun(k)]
                       /\ rlog[k + 2].name = "wait"
                       /\ AttemptsBegun(k) <= rcfg.config.maxRetries
        /\ \A k \in 1..Len(rlog) :
              rlog[k].name = "onRetry" => k > 1 /\ rlog[k - 1].name = "failed"
        /\ \A k \in 1..Len(rlog) : rlog[k].name = "succeeded" => k = Len(rlog)
        /\ RCount(IsOnRetry) <= (IF rcfg.config.maxRetries > 0 THEN rcfg.config.maxRetries ELSE 0)
        /\ rpc = "thrown" /\ rcfg.config.maxRetries >= 0 =>
              RCount(IsOnRetry) = rcfg.config.maxRetries
        /\ rpc = "returned" => RCount(IsOnRetry) = RCount(IsFailed)

\* C23 witness: with maxRetries = 3 four attempts failed; the observer was
\* called three times, with the attempts 1, 2, 3 and the errors e1, e2, e1.
C23_Witness ==
    /\ rcfg.hasOnRetry
    /\ rcfg.config.maxRetries = 3
    /\ rpc = "thrown"
    /\ [k \in 1..3 |-> <<SelectSeq(rlog, IsOnRetry)[k].attempt,
                         SelectSeq(rlog, IsOnRetry)[k].exception.message>>]
          = <<<<1, "e1">>, <<2, "e2">>, <<3, "e1">>>>
    /\ rlog[Len(rlog)].name = "failed"

\* error instanceof type, for the error classes of the model: every error
\* class derives from Error, and no other class derives from another.
InstanceOf(error, type) == type = "Error" \/ error.name = type

IsRetryable(error) ==
    \E t \in 1..Len(rcfg.config.retryableExceptions) :
        InstanceOf(error, rcfg.config.retryableExceptions[t])

\* C24: an error of the wrapped operation that is an instance of no type in
\* retryableExceptions is not retried: the attempt that threw it is the last,
\* no wait and no further attempt follow it, and the wrapper has thrown.
C24_OnlyRetryableRetried ==
    \A k \in 1..Len(rlog) :
        (rlog[k].name = "failed" /\ ~IsRetryable(rlog[k].exception)) =>
            /\ k = Len(rlog)
            /\ rpc = "thrown"
            /\ AttemptsBegun(k) = 1

(***************************************************************************)
(* The assistant message of a step, and what later steps send              *)
(***************************************************************************)
\* The assistant message that carries a response verbatim
AssistantMessageOf(response) ==
    [role |-> "assistant", content |-> response.content, thinking |-> response.thinking,
     tool_calls |-> response.tool_calls, tool_call_id |-> "", name |-> ""]

\* The position of the last report of a rebuilding pass among the first k
\* entries of a log (0 when there is none)
RECURSIVE LastRebuildIn(_, _)
LastRebuildIn(lg, k) ==
    IF k = 0 \/ IsRebuildReport(lg[k]) THEN k ELSE LastRebuildIn(lg, k - 1)

\* The responses a run has received since its last rebuilding pass, in order
ResponsesSinceRebuild(lg) ==
    LET from == LastRebuildIn(lg, Len(lg)) + 1
        received == SelectSeq(SubSeq(lg, from, Len(lg)), IsLLMResponse)
    IN [i \in 1..Len(received) |-> received[i].response]

AssistantMessagesOf(msgs) == SelectSeq(msgs, LAMBDA m : m.role = "assistant")

\* C25: the step that receives a response records its token usage (when the
\* response has one) and appends the assistant message with the response's
\* content, thinking and tool_calls unchanged; every LLM call the run makes
\* is given the history, in which the responses received since the run's last
\* rebuilding pass stand as those assistant messages, last and in order.
C25_AssistantMessageVerbatim ==
    [][/\ (Len(NewEntries) > 0 /\ IsLLMResponse(NewEntries[1])) =>
             LET response == NewEntries[1].response IN
             /\ pc = "llm"
             /\ messages' = Append(messages, AssistantMessageOf(response))
             /\ apiTotalTokens' = (IF response.usage = None THEN apiTotalTokens
                                   ELSE response.usage[1].total_tokens)
       /\ (pc # "llm" /\ pc' = "llm") =>
             LET sent == AssistantMessagesOf(request')
                 received == ResponsesSinceRebuild(log')
             IN /\ request' = messages'
                /\ Len(sent) >= Len(received)
                /\ \A i \in 1..Len(received) :
                      sent[Len(sent) - Len(received) + i] = AssistantMessageOf(received[i])]_vars

\* C25 witness: the second step of a run, with no rebuilding pass in between,
\* has sent the LLM the first step's assistant message with its thinking "hm"
\* and its three tool calls, and the usage 10 of that response is recorded.
C25_Witness ==
    /\ pc = "llm"
    /\ step = 1
    /\ Len(ResponsesSinceRebuild(log)) = 1
    /\ apiTotalTokens = 10
    /\ \E k \in 1..Len(request) :
          /\ request[k].role = "assistant"
          /\ request[k].thinking = "hm"
          /\ request[k].tool_calls = Some(<<CallA, CallB, CallC>>)

(***************************************************************************)
(* The arguments of execute: one tool call dispatched to one tool, over    *)
(* the shapes of the tool's schema and of the call's argument object       *)
(***************************************************************************)
MaxArgs == 3     \* keys of an argument object

ArgKeys == {"text", "mode", "extra"}
ArgValueOf(key) == IF key = "text" THEN "y" ELSE IF key = "mode" THEN "m" ELSE "z"

\* The argument objects: up to MaxArgs distinct keys, in any order
DispatchArguments ==
    UNION { { [j \in 1..n |-> <<ks[j], ArgValueOf(ks[j])>>] :
                ks \in { f \in [1..n -> ArgKeys] : \A a, b \in 1..n : a # b => f[a] # f[b] } } :
            n \in 0..MaxArgs }

\* The tools: parameters without a properties member, with an empty one, and
\* with one, two and three declared properties
DispatchTools ==
    { [name |-> "t", properties |-> ps] :
        ps \in { None, Some(<<>>), Some(<<"text">>), Some(<<"text", "mode">>),
                 Some(<<"mode", "text">>), Some(<<"text", "mode", "flag">>) } }

ToolLookedUp(tool) == [name |-> "toolDict.get", tool |-> tool]

\* The else branch of the tool lookup in Agent.run(), up to the call of execute
DispatchCall(tool) ==
    /\ pc = "dispatch"
    /\ log' = <<ToolLookedUp(tool),
                CallTool(curCalls[1], positionalArgs(tool, curCalls[1].function.arguments))>>
    /\ pc' = "dispatched"
    /\ UNCHANGED <<messages, apiTotalTokens, skipNextTokenCheck, maxSteps, step, curCalls,
                   toolIdx, inflight, sumRound, newMessages, summaryCount, oldTokens,
                   request, nInputs, nLLM, tokenizerWorks, stepStart, retryVars, copyVars, emitterVars, dbVars>>

DispatchInit ==
    /\ messages = <<SystemMessage>>
    /\ apiTotalTokens = 0
    /\ skipNextTokenCheck = FALSE
    /\ pc = "dispatch"
    /\ step = 0
    /\ curCalls \in { <<ToolCall("D", "t", arguments)>> : arguments \in DispatchArguments }
    /\ toolIdx = 1
    /\ inflight = {}
    /\ sumRound = 0
    /\ newMessages = <<>>
    /\ summaryCount = 0
    /\ oldTokens = 0
    /\ request = <<>>
    /\ log = <<>>
    /\ nInputs = 0
    /\ nLLM = 0
    /\ stepStart = <<>>
    /\ maxSteps = 1
    /\ tokenizerWorks = TRUE
    /\ RetryIdle

DispatchNext == \E tool \in DispatchTools : DispatchCall(tool)

SpecDispatch == DispatchInit /\ [][DispatchNext]_vars

\* The call's value for a key, and the keys it has
CallHas(arguments, key) == \E j \in 1..Len(arguments) : arguments[j][1] = key
CallValue(arguments, key) ==
    IF CallHas(arguments, key)
    THEN (CHOOSE pair \in {arguments[j] : j \in 1..Len(arguments)} : pair[1] = key)[2]
    ELSE "undefined"

\* What the first half of the claim says of a dispatch to a tool that declares
\* the properties declared: one argument per declared property, in that order.
ProjectedAsDeclared(declared, arguments, passed) ==
    /\ Len(passed) = Len(declared)
    /\ \A j \in 1..Len(declared) : passed[j] = CallValue(arguments, declared[j])

\* What the second half says: the values of the argument object, in its order.
ValuesInOwnOrder(arguments, passed) ==
    /\ Len(passed) = Len(arguments)
    /\ \A j \in 1..Len(arguments) : passed[j] = arguments[j][2]

\* C26 as stated, taking a schema to declare no properties when it has no
\* properties member or an empty one: such a tool gets the values of the
\* argument object, and a tool with k declared properties gets k arguments.
C26_PositionalArgsNoneDeclared ==
    pc = "dispatched" =>
        LET tool == log[1].tool
            arguments == curCalls[1].function.arguments
            passed == log[2].args
        IN /\ tool.properties # None =>
                 ProjectedAsDeclared(tool.properties[1], arguments, passed)
           /\ (tool.properties = None \/ tool.properties = Some(<<>>)) =>
                 ValuesInOwnOrder(arguments, passed)

\* C26 amended: a tool whose schema has a properties member, empty or not, gets
\* one argument per declared property in the declared order (the call's value
\* for the key, undefined when the call omits it; undeclared keys are not
\* passed); a tool whose schema has no properties member gets the values of
\* the argument object in the object's own key order.
C26_PositionalArgs ==
    pc = "dispatched" =>
        LET tool == log[1].tool
            arguments == curCalls[1].function.arguments
            passed == log[2].args
        IN /\ tool.properties # None =>
                 ProjectedAsDeclared(tool.properties[1], arguments, passed)
           /\ tool.properties = None => ValuesInOwnOrder(arguments, passed)

\* C26 witness: a tool declaring text, mode, flag was called with
\* {mode, extra, text}: execute got the text, the mode and undefined.
C26_Witness ==
    /\ pc = "dispatched"
    /\ log[1].tool.properties = Some(<<"text", "mode", "flag">>)
    /\ curCalls[1].function.arguments = <<<<"mode", "m">>, <<"extra", "z">>, <<"text", "y">>>>
    /\ log[2].args = <<"y", "m", "undefined">>

(***************************************************************************)
(* The summarizeMessages() call at the start of a step                     *)
(***************************************************************************)
\* A step of run() begins in this state: the loop test passes and
\* summarizeMessages() is called.
StepBegins == pc = "loop" /\ step < maxSteps

IsLLMCallEntry(e) == e.name = "llm.generate"

\* In what this step writes, the LLM call (if any) comes after the report of
\* the rebuilding pass.
RECURSIVE PositionOf(_, _, _)
PositionOf(entries, P(_), k) ==
    IF k > Len(entries) THEN 0
    ELSE IF P(entries[k]) THEN k
    ELSE PositionOf(entries, P, k + 1)

PassRunsBeforeLLMCall ==
    /\ PassStarts
    /\ pc' \in {"summary", "llm"}
    /\ pc' = "summary" => Len(SelectSeq(NewEntries, IsLLMCallEntry)) = 0
    /\ pc' = "llm" =>
          /\ Rebuilds
          /\ PositionOf(NewEntries, IsRebuildReport, 1)
                < PositionOf(NewEntries, IsLLMCallEntry, 1)

\* The call is a no-op: no pass, the history as it was, and the step goes on
\* to its LLM call with that history.
CallLeavesHistory ==
    /\ ~PassStarts
    /\ messages' = messages
    /\ apiTotalTokens' = apiTotalTokens
    /\ Len(SelectSeq(NewEntries, IsSummarizeEvent)) = 0
    /\ Len(SelectSeq(NewEntries, IsSummaryLLMCall)) = 0
    /\ pc' = "llm"
    /\ request' = messages

\* C27 as stated: at the start of every step, a history that is over budget
\* and holds a user message gets a summarization pass in that step, before
\* the LLM call; an under-budget history is left alone.
C27_OverBudgetAlwaysSummarized ==
    [][StepBegins =>
          /\ (OverLimit /\ ~NoUserMessage) => PassRunsBeforeLLMCall
          /\ ~OverLimit => CallLeavesHistory]_vars

\* C27 amended: the same, unless the suppression flag is set: then the call
\* only clears the flag and no pass runs in that step, over budget or not.
\* While a pass awaits a round summary no LLM call of a step is made.
C27_SummarizeAtStepStart ==
    [][/\ StepBegins =>
             /\ (~skipNextTokenCheck /\ OverLimit /\ ~NoUserMessage) => PassRunsBeforeLLMCall
             /\ (~skipNextTokenCheck /\ ~OverLimit) =>
                   CallLeavesHistory /\ skipNextTokenCheck' = skipNextTokenCheck
             /\ skipNextTokenCheck => CallLeavesHistory /\ ~skipNextTokenCheck'
       /\ pc = "summary" =>
             /\ pc' \in {"summary", "llm"}
             /\ pc' = "summary" => Len(SelectSeq(NewEntries, IsLLMCallEntry)) = 0
             /\ pc' = "llm" => /\ Rebuilds
                               /\ PositionOf(NewEntries, IsRebuildReport, 1)
                                     < PositionOf(NewEntries, IsLLMCallEntry, 1)
       /\ Len(SelectSeq(NewEntries, IsLLMCallEntry)) > 0 => StepBegins \/ pc = "summary"]_vars

\* C27 witness: the second step of a run found the history over budget on the
\* local estimate alone, ran a pass with one summary call, and has then
\* called the LLM with the rebuilt history.
C27_Witness ==
    /\ pc = "llm"
    /\ step = 1
    /\ skipNextTokenCheck
    /\ request = messages
    /\ Len(log) >= 2
    /\ log[Len(log)] = CallLLM
    /\ \E k \in 1..Len(log) :
          /\ log[k].name = "summarizeMessagesStarted"
          /\ log[k].localEstimatedTokens > tokenLimit
          /\ log[k].apiReportedTokens <= tokenLimit
          /\ \E j \in (k + 1)..Len(log) : log[j].name = "summary.generate"
          /\ \E j \in 1..(k - 1) : log[j].name = "llm.generate"

(***************************************************************************)
(* The report of a rebuilding pass                                         *)
(***************************************************************************)
\* The rounds of a history that have a message after their user message
RoundsWithTail(msgs) ==
    Cardinality({k \in 2..(Len(msgs) - 1) : msgs[k].role = "user" /\ msgs[k + 1].role # "user"})

\* The position of the last summarizeMessagesStarted among the first k entries
RECURSIVE LastStartedIn(_, _)
LastStartedIn(lg, k) ==
    IF k = 0 \/ lg[k].name = "summarizeMessagesStarted" THEN k ELSE LastStartedIn(lg, k - 1)

\* The events of the pass that ends in this step are in order: one
\* summarizeMessagesStarted, then the summary calls, then the one report.
PassEventsInOrder ==
    LET r == Len(log) + PositionOf(NewEntries, IsRebuildReport, 1)
        b == LastStartedIn(log', r)
    IN /\ b >= 1
       /\ Len(SelectSeq(NewEntries, IsRebuildReport)) = 1
       /\ \A k \in (b + 1)..(r - 1) : ~IsSummarizeEvent(log'[k])
       /\ \A k \in 1..Len(log') :
             IsSummaryLLMCall(log'[k]) =>
                 LET sb == LastStartedIn(log', k)
                 IN sb >= 1 /\ \A j \in (sb + 1)..k : log'[j].name # "summarizeMessagesFinished"

\* What the report of the pass that ends in this step says, but for the count
\* of the rounds: old and new local estimate, user messages, summaries inserted.
ReportMatchesPass ==
    LET report == SelectSeq(NewEntries, IsRebuildReport)[1]
    IN /\ report.ok
       /\ report.oldTokens = estimateTokens(messages, tokenizerWorks)
       /\ report.newTokens = estimateTokens(messages', tokenizerWorks)
       /\ report.userMessageCount = Len(UserMessagesOf(messages))
       /\ report.summaryCount = Len(messages') - 1 - Len(UserMessagesOf(messages))
       /\ report.summaryCount =
             Len(SelectSeq(messages', IsSummaryMessage))
             - Len(SelectSeq(messages, IsSummaryMessage))

\* C28: a rebuilding pass emits summarizeMessagesStarted before any summary
\* call and exactly one summarizeMessagesFinished {ok: true} with the old and
\* the new local estimate, the number of user messages before the pass and
\* the number of summary messages inserted, which is the number of rounds
\* that had a message after their user message.
C28_PassReport ==
    [][Rebuilds =>
          /\ PassEventsInOrder
          /\ ReportMatchesPass
          /\ SelectSeq(NewEntries, IsRebuildReport)[1].summaryCount
                = RoundsWithTail(messages)]_vars

\* The same without its last clause: the order of the events and the four
\* numbers of the report.
C28_ReportedNumbers ==
    [][Rebuilds => PassEventsInOrder /\ ReportMatchesPass]_vars

(***************************************************************************)
(* getHistory() and its caller: the history as an array of references to   *)
(* message objects, a caller that changes what getHistory() gave it, and   *)
(* the context handed to the LLM afterwards                                *)
(***************************************************************************)
MaxCallerOps == 2     \* changes the caller makes through the returned array

\* The messages an array refers to
Deref(objs, arr) == [i \in 1..Len(arr) |-> objs[arr[i]]]

\* Mutant of getHistory: the array itself is returned, not a copy.
getHistoryNoCopy(arrs, heldRef) == [arrays |-> arrs, result |-> heldRef]

\* getHistory(): return [...this.messages], a new array of the same references
getHistory(arrs, heldRef) ==
    [arrays |-> Append(arrs, arrs[heldRef]), result |-> Len(arrs) + 1]

\* get context(): { messages: this.messages, ... }, the array itself
contextMessages(heldRef) == heldRef

HistoryFrame ==
    /\ pc = "history"
    /\ UNCHANGED <<apiTotalTokens, skipNextTokenCheck, maxSteps, pc, step, curCalls,
                   toolIdx, inflight, sumRound, newMessages, summaryCount, oldTokens,
                   nInputs, tokenizerWorks, stepStart, retryVars, emitterVars, dbVars>>

CallerOps == {"caller.push", "caller.pop", "caller.replace", "caller.modify"}
CallerOpsDone == Cardinality({k \in 1..Len(log) : log[k].name \in CallerOps})

\* contextManager.addUserMessage(content): this.messages.push(...)
HistoryAddUser(content) ==
    /\ HistoryFrame
    /\ Len(arrays[held]) < MaxHistory
    /\ objects' = Append(objects, Message("user", content, "", None, "", ""))
    /\ arrays' = [arrays EXCEPT ![held] = Append(@, Len(objects) + 1)]
    /\ messages' = Deref(objects', arrays'[held])
    /\ log' = Append(log, [name |-> "addUserMessage"])
    /\ UNCHANGED <<held, returned, request, nLLM>>

\* const history = contextManager.getHistory()
GetHistory ==
    /\ HistoryFrame
    /\ returned = None
    /\ LET call == getHistory(arrays, held)
       IN /\ arrays' = call.arrays
          /\ returned' = Some(call.result)
    /\ log' = Append(log, [name |-> "getHistory"])
    /\ UNCHANGED <<objects, held, messages, request, nLLM>>

CallerFrame ==
    /\ HistoryFrame
    /\ returned # None
    /\ CallerOpsDone < MaxCallerOps
    /\ UNCHANGED <<held, returned, request, nLLM>>

\* history.push(message)
CallerPush(content) ==
    /\ CallerFrame
    /\ objects' = Append(objects, Message("user", content, "", None, "", ""))
    /\ arrays' = [arrays EXCEPT ![returned[1]] = Append(@, Len(objects) + 1)]
    /\ messages' = Deref(objects', arrays'[held])
    /\ log' = Append(log, [name |-> "caller.push"])

\* history.pop()
CallerPop ==
    /\ CallerFrame
    /\ Len(arrays[returned[1]]) > 0
    /\ arrays' = [arrays EXCEPT ![returned[1]] = SubSeq(@, 1, Len(@) - 1)]
    /\ objects' = objects
    /\ messages' = Deref(objects', arrays'[held])
    /\ log' = Append(log, [name |-> "caller.pop"])

\* history[i] = message
CallerReplace(i, content) ==
    /\ CallerFrame
    /\ i \in 1..Len(arrays[returned[1]])
    /\ objects' = Append(objects, Message("user", content, "", None, "", ""))
    /\ arrays' = [arrays EXCEPT ![returned[1]][i] = Len(objects) + 1]
    /\ messages' = Deref(objects', arrays'[held])
    /\ log' = Append(log, [name |-> "caller.replace", index |-> i])

\* history[i].content = content
CallerModify(i, content) ==
    /\ CallerFrame
    /\ i \in 1..Len(arrays[returned[1]])
    /\ objects' = [objects EXCEPT ![arrays[returned[1]][i]].content = content]
    /\ arrays' = arrays
    /\ messages' = Deref(objects', arrays'[held])
    /\ log' = Append(log, [name |-> "caller.modify", index |-> i,
                           object |-> arrays[returned[1]][i]])

\* llm.generate(this.contextManager.context.messages, ...)
SendContext ==
    /\ HistoryFrame
    /\ returned # None
    /\ nLLM < MaxLLMCalls
    /\ nLLM' = nLLM + 1
    /\ request' = Deref(objects, arrays[contextMessages(held)])
    /\ log' = Append(log, CallLLM)
    /\ UNCHANGED <<objects, arrays, held, returned, messages>>

CallerTexts == {"new"}

HistoryInit ==
    /\ objects = <<SystemMessage>>
    /\ arrays = <<<<1>>>>
    /\ held = 1
    /\ returned = None
    /\ messages = <<SystemMessage>>
    /\ apiTotalTokens = 0
    /\ skipNextTokenCheck = FALSE
    /\ pc = "history"
    /\ step = 0
    /\ curCalls = <<>>
    /\ toolIdx = 0
    /\ inflight = {}
    /\ sumRound = 0
    /\ newMessages = <<>>
    /\ summaryCount = 0
    /\ oldTokens = 0
    /\ request = <<>>
    /\ log = <<>>
    /\ nInputs = 0
    /\ nLLM = 0
    /\ stepStart = <<>>
    /\ maxSteps = 0
    /\ tokenizerWorks = TRUE
    /\ EmitterIdle
    /\ DbIdle
    /\ rcfg = [config |-> DefaultRetryConfig, hasOnRetry |-> FALSE]
    /\ rpc = "idle"
    /\ attempt = 0
    /\ lastException = None
    /\ rout = None
    /\ rlog = <<>>

HistoryNext ==
    \/ \E content \in AppendTexts : HistoryAddUser(content)
    \/ GetHistory
    \/ \E content \in CallerTexts : CallerPush(content)
    \/ CallerPop
    \/ \E i \in 1..(MaxHistory + MaxCallerOps), content \in CallerTexts : CallerReplace(i, content)
    \/ \E i \in 1..(MaxHistory + MaxCallerOps), content \in CallerTexts : CallerModify(i, content)
    \/ SendContext

SpecHistory == HistoryInit /\ [][HistoryNext]_vars

\* The history the ContextManager holds, read through its reference
HeldHistory == Deref(objects, arrays[held])

\* This step is the caller changing what getHistory() returned.
CallerChanges == Len(NewEntries) = 1 /\ NewEntries[1].name \in CallerOps

\* C29 as stated: no change made through the returned sequence (adding,
\* removing or replacing entries, or modifying a returned message) changes
\* the history the ContextManager holds, and each LLM call is sent that history.
C29_NoChangeThroughHistory ==
    [][/\ CallerChanges => HeldHistory' = HeldHistory /\ messages' = messages
       /\ (Len(NewEntries) = 1 /\ NewEntries[1] = CallLLM) =>
             request' = HeldHistory /\ request' = messages]_vars

\* C29 amended: the returned sequence is a copy of the array only. Adding,
\* removing or replacing its entries changes nothing of the history held;
\* modifying a returned message in place changes that same message of the
\* history when the history still holds it, and nothing else; each LLM call is
\* sent the history held.
C29_ShallowCopy ==
    [][/\ (CallerChanges /\ NewEntries[1].name # "caller.modify") =>
             /\ HeldHistory' = HeldHistory
             /\ messages' = messages
             /\ arrays'[held'] = arrays[held]
       /\ (CallerChanges /\ NewEntries[1].name = "caller.modify") =>
             LET o == NewEntries[1].object IN
             /\ arrays'[held'] = arrays[held]
             /\ \A k \in 1..Len(arrays[held]) :
                   IF arrays[held][k] = o
                   THEN /\ HeldHistory'[k] = objects'[o]
                        /\ HeldHistory'[k].role = HeldHistory[k].role
                   ELSE HeldHistory'[k] = HeldHistory[k]
       /\ returned # None => returned[1] # held
       /\ (Len(NewEntries) = 1 /\ NewEntries[1] = CallLLM) =>
             request' = HeldHistory /\ request' = messages]_vars

\* C29 witness: the caller pushed onto and replaced an entry of the array it
\* got; the history of two messages is as it was and has been sent to the LLM.
C29_Witness ==
    /\ returned # None
    /\ \E k \in 1..Len(log) : log[k].name = "caller.push"
    /\ \E k \in 1..Len(log) : log[k].name = "caller.replace"
    /\ log[Len(log)] = CallLLM
    /\ request = <<SystemMessage, Message("user", "hi", "", None, "", "")>>
    /\ HeldHistory = request
    /\ Deref(objects, arrays[returned[1]]) # HeldHistory

(***************************************************************************)
(* AgentEventsEmitter: on, off, once and emit are passed to a node:events  *)
(* EventEmitter, modelled by what that class documents: listeners are kept *)
(* per event name in the order they were added, emit calls them            *)
(* synchronously in that order, off removes the most recently added        *)
(* instance of the handler, a once listener is removed before it is called.*)
(* Handlers here observe only: they return normally and call neither on,   *)
(* off, once nor emit.                                                     *)
(***************************************************************************)
MaxEmitterOps == 4     \* on, off, once and emit calls per behaviour

EventNames == {"stepStarted", "runFinished"}
Handlers == {"h1", "h2"}

Registration(id, handler, once) == [id |-> id, handler |-> handler, once |-> once]

\* Entries of log: the calls made on the emitter and the handler invocations
EmOn(event, handler, id) == [name |-> "on", event |-> event, handler |-> handler, id |-> id]
EmOnce(event, handler, id) == [name |-> "once", event |-> event, handler |-> handler, id |-> id]
EmOff(event, handler) == [name |-> "off", event |-> event, handler |-> handler]
EmEmit(event) == [name |-> "emit", event |-> event]
EmInvoked(event, reg) ==
    [name |-> "handler", event |-> event, handler |-> reg.handler, id |-> reg.id]
EmReturned(result) == [name |-> "emit.returned", result |-> result]

EmitterOps == {"on", "once", "off", "emit"}
EmitterOpsDone == Cardinality({k \in 1..Len(log) : log[k].name \in EmitterOps})

EmitterFrame ==
    /\ pc = "emitter"
    /\ EmitterOpsDone < MaxEmitterOps
    /\ UNCHANGED <<messages, apiTotalTokens, skipNextTokenCheck, maxSteps, pc, step, curCalls,
                   toolIdx, inflight, sumRound, newMessages, summaryCount, oldTokens,
                   request, nInputs, nLLM, tokenizerWorks, stepStart, retryVars, copyVars, dbVars>>

\* The index of the last listener of a handler (0 when it has none)
RECURSIVE LastIndexOf(_, _, _)
LastIndexOf(regs, handler, k) ==
    IF k = 0 \/ regs[k].handler = handler THEN k ELSE LastIndexOf(regs, handler, k - 1)

\* removeListener: the most recently added instance of the handler is removed
removeListener(regs, handler) ==
    LET idx == LastIndexOf(regs, handler, Len(regs))
    IN IF idx = 0 THEN regs
       ELSE SubSeq(regs, 1, idx - 1) \o SubSeq(regs, idx + 1, Len(regs))

\* Mutant of afterEmit: a once listener stays registered after its call.
afterEmitKeepsOnce(regs) == regs

\* What emit leaves registered: the once listeners it called are gone
afterEmit(regs) == SelectSeq(regs, LAMBDA r : ~r.once)

\* events.on(event, handler)
On(event, handler) ==
    /\ EmitterFrame
    /\ listeners' = [listeners EXCEPT ![event] =
                        Append(@, Registration(nRegs + 1, handler, FALSE))]
    /\ nRegs' = nRegs + 1
    /\ log' = Append(log, EmOn(event, handler, nRegs + 1))

\* events.once(event, handler)
Once(event, handler) ==
    /\ EmitterFrame
    /\ listeners' = [listeners EXCEPT ![event] =
                        Append(@, Registration(nRegs + 1, handler, TRUE))]
    /\ nRegs' = nRegs + 1
    /\ log' = Append(log, EmOnce(event, handler, nRegs + 1))

\* events.off(event, handler)
Off(event, handler) ==
    /\ EmitterFrame
    /\ listeners' = [listeners EXCEPT ![event] = removeListener(@, handler)]
    /\ nRegs' = nRegs
    /\ log' = Append(log, EmOff(event, handler))

\* events.emit(event, payload): every listener of the event is called, in
\* order, before emit returns whether there was any
Emit(event) ==
    /\ EmitterFrame
    /\ listeners' = [listeners EXCEPT ![event] = afterEmit(@)]
    /\ nRegs' = nRegs
    /\ log' = log \o <<EmEmit(event)>>
                  \o [k \in 1..Len(listeners[event]) |-> EmInvoked(event, listeners[event][k])]
                  \o <<EmReturned(Len(listeners[event]) > 0)>>

EmitterInit ==
    /\ listeners = [event \in EventNames |-> <<>>]
    /\ nRegs = 0
    /\ CopyIdle
    /\ DbIdle
    /\ messages = <<SystemMessage>>
    /\ apiTotalTokens = 0
    /\ skipNextTokenCheck = FALSE
    /\ pc = "emitter"
    /\ step = 0
    /\ curCalls = <<>>
    /\ toolIdx = 0
    /\ inflight = {}
    /\ sumRound = 0
    /\ newMessages = <<>>
    /\ summaryCount = 0
    /\ oldTokens = 0
    /\ request = <<>>
    /\ log = <<>>
    /\ nInputs = 0
    /\ nLLM = 0
    /\ stepStart = <<>>
    /\ maxSteps = 0
    /\ tokenizerWorks = TRUE
    /\ rcfg = [config |-> DefaultRetryConfig, hasOnRetry |-> FALSE]
    /\ rpc = "idle"
    /\ attempt = 0
    /\ lastException = None
    /\ rout = None
    /\ rlog = <<>>

EmitterNext ==
    \/ \E event \in EventNames, handler \in Handlers : On(event, handler)
    \/ \E event \in EventNames, handler \in Handlers : Once(event, handler)
    \/ \E event \in EventNames, handler \in Handlers : Off(event, handler)
    \/ \E event \in EventNames : Emit(event)

SpecEmitter == EmitterInit /\ [][EmitterNext]_vars

IdsOf(regs) == [k \in 1..Len(regs) |-> regs[k].id]
IsHandlerCall(e) == e.name = "handler"

\* The position of the last emit among the first k entries of the log
RECURSIVE LastEmitIn(_, _)
LastEmitIn(lg, k) == IF k = 0 \/ lg[k].name = "emit" THEN k ELSE LastEmitIn(lg, k - 1)

\* What the log shows of the deliveries so far: a handler is called only for
\* an emit made after its registration, and a once registration is called for
\* at most one emit.
DeliveriesInLog(lg) ==
    /\ \A k \in 1..Len(lg) :
          IsHandlerCall(lg[k]) =>
              \E j \in 1..(LastEmitIn(lg, k) - 1) :
                  /\ lg[j].name \in {"on", "once"}
                  /\ lg[j].id = lg[k].id
                  /\ lg[j].event = lg[k].event
                  /\ lg[j].handler = lg[k].handler
                  /\ lg[LastEmitIn(lg, k)].event = lg[k].event
    /\ \A j \in 1..Len(lg) :
          lg[j].name = "once" =>
              Cardinality({k \in 1..Len(lg) : IsHandlerCall(lg[k]) /\ lg[k].id = lg[j].id}) <= 1

\* C30: emit calls exactly the registrations its event name has at emit time,
\* in registration order, all before it returns, and no other handler; a
\* registration made later is not called for an emit already made; off takes
\* the handler's latest registration away, and a registration that is gone is
\* not called again; a once registration is called for at most one emit.
C30_EmitterDelivery ==
    [][/\ DeliveriesInLog(log')
       /\ (Len(NewEntries) > 0 /\ NewEntries[1].name = "emit") =>
             LET regs == listeners[NewEntries[1].event]
                 called == SubSeq(NewEntries, 2, Len(NewEntries) - 1)
             IN /\ NewEntries[Len(NewEntries)] = [name |-> "emit.returned",
                                                  result |-> Len(regs) > 0]
                /\ Len(called) = Len(regs)
                /\ \A k \in 1..Len(regs) :
                      called[k] = [name |-> "handler", event |-> NewEntries[1].event,
                                   handler |-> regs[k].handler, id |-> regs[k].id]
                /\ \A a, b \in 1..Len(regs) : a < b => regs[a].id < regs[b].id
                /\ \A k \in 1..Len(regs) :
                      regs[k].once =>
                          \A ev \in EventNames : \A i \in 1..Len(listeners'[ev]) :
                              listeners'[ev][i].id # regs[k].id
       /\ (Len(NewEntries) > 0 /\ NewEntries[1].name \in {"on", "once"}) =>
             /\ Len(NewEntries) = 1
             /\ NewEntries[1].id = nRegs + 1
             /\ IdsOf(listeners'[NewEntries[1].event])
                   = Append(IdsOf(listeners[NewEntries[1].event]), nRegs + 1)
       /\ (Len(NewEntries) > 0 /\ NewEntries[1].name = "off") =>
             LET regs == listeners[NewEntries[1].event]
                 mine == {k \in 1..Len(regs) : regs[k].handler = NewEntries[1].handler}
             IN /\ Len(NewEntries) = 1
                /\ mine = {} => listeners' = listeners
                /\ mine # {} =>
                      LET last == CHOOSE k \in mine : \A m \in mine : m <= k
                      IN /\ listeners'[NewEntries[1].event]
                              = SelectSeq(regs, LAMBDA r : r.id # regs[last].id)
                         /\ \A ev \in EventNames \ {NewEntries[1].event} :
                               listeners'[ev] = listeners[ev]
       /\ \A ev \in EventNames : \A r \in 1..nRegs :
             (\A i \in 1..Len(listeners[ev]) : listeners[ev][i].id # r)
             => (\A i \in 1..Len(listeners'[ev]) : listeners'[ev][i].id # r)]_vars

\* C30 witness: h1 was registered with on and h2 with once for stepStarted;
\* the first emit called h1 then h2, and the second emit called h1 alone.
C30_Witness ==
    /\ pc = "emitter"
    /\ Len(log) = 9
    /\ [k \in 1..9 |-> log[k].name]
          = <<"on", "once", "emit", "handler", "handler", "emit.returned",
              "emit", "handler", "emit.returned">>
    /\ [k \in {4, 5, 8} |-> log[k].handler] = (4 :> "h1" @@ 5 :> "h2" @@ 8 :> "h1")
    /\ log[3].event = "stepStarted"
    /\ log[7].event = "stepStarted"

\* The same for off: h1 was registered, removed with off, and the emit that
\* followed called nothing and returned false.
C30_WitnessOff ==
    /\ pc = "emitter"
    /\ [k \in 1..Len(log) |-> log[k].name] = <<"on", "off", "emit", "emit.returned">>
    /\ log[1].handler = log[2].handler
    /\ log[1].event = log[3].event
    /\ ~log[4].result

(***************************************************************************)
(* The tokenizer's failure inside estimateTokens()                         *)
(***************************************************************************)
\* The characters estimateTokensFallback() counts in one message
CountedChars(msg) ==
    Len(msg.content)
    + (IF msg.thinking = "" THEN 0 ELSE Len(msg.thinking))
    + (IF msg.tool_calls = None THEN 0 ELSE Len(StringifyToolCalls(msg.tool_calls[1])))

RECURSIVE SumOver(_, _)
SumOver(msgs, k) == IF k = 0 THEN 0 ELSE CountedChars(msgs[k]) + SumOver(msgs, k - 1)

\* v = floor(chars / 2.5), said without dividing
IsFloorOfCharsOver2p5(v, chars) == 5 * v <= 2 * chars /\ 2 * chars < 5 * (v + 1)

IsFallbackEvent(e) == e.name = "tokenEstimationFallbacked"

\* C31: a call of estimateTokens() on which the tokenizer fails returns (it
\* does not throw), after emitting exactly one tokenEstimationFallbacked event
\* that carries the tokenizer's error; the value returned is floor(total
\* characters / 2.5) over content, thinking and stringified tool_calls of all
\* messages. A call on which the tokenizer works emits no such event. The
\* history is left as it was either way.
C31_TokenizerFailureFallsBack ==
    [][(Len(NewEntries) > 0 /\ IsEstimate(NewEntries[Len(NewEntries)])) =>
          LET ret == NewEntries[Len(NewEntries)] IN
          /\ messages' = messages
          /\ IF ret.tokenizer
             THEN /\ NewEntries = <<ret>>
                  /\ ret.value = TiktokenTokens(messages)
             ELSE /\ Len(NewEntries) = 2
                  /\ IsFallbackEvent(NewEntries[1])
                  /\ NewEntries[1].error = TokenizerError
                  /\ IsFloorOfCharsOver2p5(ret.value, SumOver(messages, Len(messages)))]_vars

\* C31 witness: on a history holding an assistant message with thinking and
\* tool calls the tokenizer failed, one fallback event was emitted and the
\* estimate that followed it differs from the tokenizer's count.
C31_Witness ==
    /\ pc = "append"
    /\ Len(log) >= 2
    /\ IsFallbackEvent(log[Len(log) - 1])
    /\ IsEstimate(log[Len(log)])
    /\ ~log[Len(log)].tokenizer
    /\ \E k \in 1..Len(messages) :
          /\ messages[k].role = "assistant"
          /\ messages[k].thinking # ""
          /\ messages[k].tool_calls # None
    /\ log[Len(log)].value # TiktokenTokens(messages)
    /\ Cardinality({k \in 1..Len(log) : IsFallbackEvent(log[k])})
          = Cardinality({k \in 1..Len(log) : IsEstimate(log[k]) /\ ~log[k].tokenizer})

(***************************************************************************)
(* MongoRoleDB: the roles collection and its id counter, called by two     *)
(* clients whose calls may overlap. A call is split where it awaits the    *)
(* database; each command the database runs (findOneAndUpdate, updateOne,  *)
(* findOne, deleteOne) is one step, together with the part of the call     *)
(* that resumes after it.                                                  *)
(***************************************************************************)
MaxRoleCalls == 4

Clients == {1, 2}
RoleIds == {1}

RoleData(id, name, description, prompt) ==
    [id |-> id, name |-> name, description |-> description, prompt |-> prompt]

\* The role data the clients pass: a new role, a new role whose prompt is
\* missing, and data carrying an id of its own.
RoleInputs ==
    {RoleData(None, "Role", "A role", "Be a role"), RoleData(None, "Role", "A role", "")}
    \cup {RoleData(Some(i), "Updated", "Updated role", "Be updated") : i \in RoleIds}

NoCall == [pc |-> "idle", roleData |-> None, roleId |-> 0]

DbUpsertCalled(c, roleData) == [name |-> "upsertRole", client |-> c, roleData |-> roleData]
DbUpsertThrew(c) == [name |-> "upsertRole.threw", client |-> c]
DbNextId(c, id) == [name |-> "getNextId", client |-> c, id |-> id]
DbUpdated(c, id, upserted) ==
    [name |-> "updateOne", client |-> c, id |-> id, upserted |-> upserted]
DbUpsertReturned(c, id) == [name |-> "upsertRole.returned", client |-> c, id |-> id]
DbDeleteCalled(c, id) == [name |-> "deleteRole", client |-> c, id |-> id]
DbFound(c, id, found) == [name |-> "findOne", client |-> c, id |-> id, found |-> found]
DbDeleted(c, id, deletedCount) ==
    [name |-> "deleteOne", client |-> c, id |-> id, deletedCount |-> deletedCount]
DbDeleteReturned(c, id, result) ==
    [name |-> "deleteRole.returned", client |-> c, id |-> id, result |-> result]

RoleCallsStarted ==
    Cardinality({k \in 1..Len(log) : log[k].name \in {"upsertRole", "deleteRole"}})

\* The clients are alike: a call is made by the first client that has none in
\* progress.
CanCall(c) ==
    /\ procs[c].pc = "idle"
    /\ \A other \in Clients : procs[other].pc = "idle" => c <= other
    /\ RoleCallsStarted < MaxRoleCalls

RolesFrame ==
    /\ pc = "roles"
    /\ UNCHANGED <<messages, apiTotalTokens, skipNextTokenCheck, maxSteps, pc, step, curCalls,
                   toolIdx, inflight, sumRound, newMessages, summaryCount, oldTokens,
                   request, nInputs, nLLM, tokenizerWorks, stepStart, retryVars, copyVars,
                   emitterVars>>

\* !roleData.name || !roleData.description || !roleData.prompt
MissingRequired(roleData) ==
    roleData.name = "" \/ roleData.description = "" \/ roleData.prompt = ""

\* counters.findOneAndUpdate({_id: kind}, {$inc: {seq: 1}}, {upsert: true,
\* returnDocument: "after"}): one atomic command of the database
findOneAndUpdateReadOnly(seq) == [counter |-> seq, seq |-> seq + 1]

findOneAndUpdate(seq) == [counter |-> seq + 1, seq |-> seq + 1]

\* collection.updateOne({id}, {$set: roleData}, {upsert: true})
updateOne(rs, id, roleData) ==
    [i \in (DOMAIN rs) \cup {id} |-> IF i = id THEN roleData ELSE rs[i]]

\* collection.findOne({id})
findOne(rs, id) == IF id \in DOMAIN rs THEN Some(rs[id]) ELSE None

\* collection.deleteOne({id})
deleteOne(rs, id) == [i \in (DOMAIN rs) \ {id} |-> rs[i]]

\* getRole(roleId): the role, or null
getRole(rs, roleId) == findOne(rs, roleId)

\* listRoles(): the roles of the collection
listRoles(rs) == {rs[i] : i \in DOMAIN rs}

\* upsertRole(roleData) up to its first await: it throws on missing fields,
\* asks the counter for an id when the data has none, and sends updateOne
\* otherwise.
UpsertRole(c, roleData) ==
    /\ RolesFrame
    /\ CanCall(c)
    /\ IF MissingRequired(roleData)
       THEN /\ log' = log \o <<DbUpsertCalled(c, roleData), DbUpsertThrew(c)>>
            /\ procs' = procs
       ELSE /\ log' = Append(log, DbUpsertCalled(c, roleData))
            /\ procs' = [procs EXCEPT ![c] =
                  IF roleData.id = None
                  THEN [pc |-> "getNextId", roleData |-> Some(roleData), roleId |-> 0]
                  ELSE [pc |-> "updateOne", roleData |-> Some(roleData),
                        roleId |-> Get(roleData.id)]]
    /\ UNCHANGED <<roles, counter>>

\* getNextId("role") runs in the database and upsertRole resumes:
\* roleData.id = result.seq, then updateOne is sent
GetNextId(c) ==
    /\ RolesFrame
    /\ procs[c].pc = "getNextId"
    /\ LET result == findOneAndUpdate(counter) IN
       /\ counter' = result.counter
       /\ procs' = [procs EXCEPT ![c] =
             [pc |-> "updateOne",
              roleData |-> Some([Get(procs[c].roleData) EXCEPT !.id = Some(result.seq)]),
              roleId |-> result.seq]]
       /\ log' = Append(log, DbNextId(c, result.seq))
    /\ UNCHANGED roles

\* updateOne runs in the database and upsertRole returns roleData.id
UpdateOne(c) ==
    /\ RolesFrame
    /\ procs[c].pc = "updateOne"
    /\ roles' = updateOne(roles, procs[c].roleId, Get(procs[c].roleData))
    /\ log' = log \o <<DbUpdated(c, procs[c].roleId, procs[c].roleId \notin DOMAIN roles),
                       DbUpsertReturned(c, procs[c].roleId)>>
    /\ procs' = [procs EXCEPT ![c] = NoCall]
    /\ UNCHANGED counter

\* deleteRole(roleId) up to its first await: findOne is sent
DeleteRole(c, roleId) ==
    /\ RolesFrame
    /\ CanCall(c)
    /\ procs' = [procs EXCEPT ![c] = [pc |-> "findOne", roleData |-> None, roleId |-> roleId]]
    /\ log' = Append(log, DbDeleteCalled(c, roleId))
    /\ UNCHANGED <<roles, counter>>

\* findOne runs in the database and deleteRole resumes: it returns false when
\* there is no such role, and sends deleteOne otherwise
DeleteFind(c) ==
    /\ RolesFrame
    /\ procs[c].pc = "findOne"
    /\ LET role == findOne(roles, procs[c].roleId) IN
       IF role = None
       THEN /\ procs' = [procs EXCEPT ![c] = NoCall]
            /\ log' = log \o <<DbFound(c, procs[c].roleId, FALSE),
                               DbDeleteReturned(c, procs[c].roleId, FALSE)>>
       ELSE /\ procs' = [procs EXCEPT ![c].pc = "deleteOne"]
            /\ log' = Append(log, DbFound(c, procs[c].roleId, TRUE))
    /\ UNCHANGED <<roles, counter>>

\* deleteOne runs in the database and deleteRole returns true
DeleteOne(c) ==
    /\ RolesFrame
    /\ procs[c].pc = "deleteOne"
    /\ roles' = deleteOne(roles, procs[c].roleId)
    /\ log' = log \o <<DbDeleted(c, procs[c].roleId,
                                 IF procs[c].roleId \in DOMAIN roles THEN 1 ELSE 0),
                       DbDeleteReturned(c, procs[c].roleId, TRUE)>>
    /\ procs' = [procs EXCEPT ![c] = NoCall]
    /\ UNCHANGED counter

\* A fresh database and two clients with no call in progress
RolesInit ==
    /\ roles = <<>>
    /\ counter = 0
    /\ procs = [c \in Clients |-> NoCall]
    /\ CopyIdle
    /\ EmitterIdle
    /\ messages = <<SystemMessage>>
    /\ apiTotalTokens = 0
    /\ skipNextTokenCheck = FALSE
    /\ pc = "roles"
    /\ step = 0
    /\ curCalls = <<>>
    /\ toolIdx = 0
    /\ inflight = {}
    /\ sumRound = 0
    /\ newMessages = <<>>
    /\ summaryCount = 0
    /\ oldTokens = 0
    /\ request = <<>>
    /\ log = <<>>
    /\ nInputs = 0
    /\ nLLM = 0
    /\ stepStart = <<>>
    /\ maxSteps = 0
    /\ tokenizerWorks = TRUE
    /\ rcfg = [config |-> DefaultRetryConfig, hasOnRetry |-> FALSE]
    /\ rpc = "idle"
    /\ attempt = 0
    /\ lastException = None
    /\ rout = None
    /\ rlog = <<>>

RolesNext ==
    \/ \E c \in Clients, roleData \in RoleInputs : UpsertRole(c, roleData)
    \/ \E c \in Clients : GetNextId(c)
    \/ \E c \in Clients : UpdateOne(c)
    \/ \E c \in Clients, roleId \in RoleIds : DeleteRole(c, roleId)
    \/ \E c \in Clients : DeleteFind(c)
    \/ \E c \in Clients : DeleteOne(c)

SpecRoles == RolesInit /\ [][RolesNext]_vars

IsNextId(e) == e.name = "getNextId"
AssignedIds(lg) == SelectSeq(lg, IsNextId)

\* The calls of upsertRole on role data that has the required fields and no id
NewRoleCalls(lg) ==
    {j \in 1..Len(lg) : /\ lg[j].name = "upsertRole"
                        /\ lg[j].roleData.id = None
                        /\ ~MissingRequired(lg[j].roleData)}

\* Where the call made at j returned (0: not yet)
ReturnOf(lg, j) ==
    LET later == {r \in (j + 1)..Len(lg) : /\ lg[r].name = "upsertRole.returned"
                                          /\ lg[r].client = lg[j].client}
    IN IF later = {} THEN 0 ELSE CHOOSE r \in later : \A q \in later : r <= q

\* What the log shows of the ids given out so far
IdsGivenOnce(lg) ==
    LET given == {k \in 1..Len(lg) : IsNextId(lg[k])}
        deleted == {d \in 1..Len(lg) : lg[d].name = "deleteOne"}
        calls == {a \in NewRoleCalls(lg) : ReturnOf(lg, a) # 0}
    IN /\ \A k \in given : lg[k].id = Cardinality({g \in given : g <= k})
       /\ \A a, b \in calls :
             a # b =>
                 /\ lg[ReturnOf(lg, a)].id # lg[ReturnOf(lg, b)].id
                 /\ ReturnOf(lg, a) < b => lg[ReturnOf(lg, a)].id < lg[ReturnOf(lg, b)].id
       /\ \A a \in calls :
             \E k \in given :
                 /\ a < k /\ k < ReturnOf(lg, a)
                 /\ lg[k].client = lg[a].client
                 /\ lg[k].id = lg[ReturnOf(lg, a)].id
       /\ \A d \in deleted : \A g, k \in given :
             (g < d /\ lg[d].id = lg[g].id /\ d < k) => lg[k].id # lg[d].id

\* No id the counter gives is the id of a role stored or deleted before,
\* whoever chose that role's id.
IdsNeverShared(lg) ==
    \A k \in {k \in 1..Len(lg) : IsNextId(lg[k])} : \A d \in 1..(k - 1) :
        lg[d].name \in {"updateOne", "deleteOne"} => lg[k].id # lg[d].id

IsRejection(entries) ==
    /\ Len(entries) = 2
    /\ entries[1].name = "upsertRole"
    /\ entries[2].name = "upsertRole.threw"

\* C32 as stated: in a fresh database the ids given to role data without an
\* id are 1, 2, 3, ... in call order, no id is ever the id of two different
\* roles (also when upsertRole calls overlap), no id is used again after its
\* role was deleted, and a call rejected for a missing name, description or
\* prompt takes no id and changes nothing.
C32_IdsNeverShared ==
    [][/\ IdsGivenOnce(log')
       /\ IdsNeverShared(log')
       /\ IsRejection(NewEntries) => (roles' = roles /\ counter' = counter)]_vars

\* C32 amended: in a fresh database the ids the counter gives to role data
\* without an id are 1, 2, 3, ... in the order they are given, which is the
\* order of the calls when the calls do not overlap; no two such calls get the
\* same id, also when they overlap; an id the counter gave is not given again
\* after its role was deleted; the call returns the id it was given. A call
\* rejected for a missing name, description or prompt takes no id and leaves
\* roles and counter as they were, and only such calls are rejected.
C32_FreshIds ==
    [][/\ IdsGivenOnce(log')
       /\ IsRejection(NewEntries) =>
             /\ MissingRequired(NewEntries[1].roleData)
             /\ roles' = roles
             /\ counter' = counter
             /\ procs' = procs
       /\ (Len(NewEntries) > 0 /\ NewEntries[1].name = "upsertRole"
           /\ MissingRequired(NewEntries[1].roleData)) => IsRejection(NewEntries)
       /\ counter' = Len(AssignedIds(log'))]_vars

\* C32 witness: two overlapping upsertRole calls of new roles were given 1 and
\* 2, deleteRole(1) returned true, and the new role upserted after that was
\* given 3; the roles stored are 2 and 3.
C32_Witness ==
    /\ pc = "roles"
    /\ \A c \in Clients : procs[c] = NoCall
    /\ Len(log) > 2
    /\ {1, 2} \subseteq NewRoleCalls(log)
    /\ Len(AssignedIds(log)) = 3
    /\ \E d \in 1..Len(log) :
          /\ log[d] = [name |-> "deleteRole.returned", client |-> log[d].client,
                       id |-> 1, result |-> TRUE]
          /\ \E k \in (d + 1)..Len(log) : IsNextId(log[k]) /\ log[k].id = 3
    /\ DOMAIN roles = {2, 3}
    /\ \A i \in DOMAIN roles : roles[i].id = Some(i)

\* How often deleteRole(id) has returned true, and how often a role was stored
\* under the id
TrueDeletes(lg, id) ==
    Cardinality({k \in 1..Len(lg) : /\ lg[k].name = "deleteRole.returned"
                                    /\ lg[k].id = id
                                    /\ lg[k].result})
TimesStored(lg, id) ==
    Cardinality({k \in 1..Len(lg) : /\ lg[k].name = "updateOne"
                                    /\ lg[k].id = id
                                    /\ lg[k].upserted})

ReturnsFromDelete(entries) ==
    Len(entries) = 2 /\ entries[2].name = "deleteRole.returned"

\* C33: deleteRole(id) returns true exactly when a role with that id existed
\* and this call removed it; when it has returned true getRole(id) is null and
\* listRoles() has no role of that id; when it returns false there is no such
\* role; and for each role stored at most one deleteRole call returns true,
\* also when two deleteRole calls for the same id overlap.
C33_DeleteReturnsTrueOnce ==
    [][ReturnsFromDelete(NewEntries) =>
          LET ret == NewEntries[2] IN
          /\ ret.result <=> (NewEntries[1].name = "deleteOne" /\ NewEntries[1].deletedCount = 1)
          /\ ret.result =>
                /\ getRole(roles', ret.id) = None
                /\ \A role \in listRoles(roles') : role.id # Some(ret.id)
          /\ ~ret.result => ret.id \notin DOMAIN roles
          /\ TrueDeletes(log', ret.id) <= TimesStored(log', ret.id)]_vars

(***************************************************************************)
(* The events and the message of one tool call                             *)
(***************************************************************************)
IsToolCallStarted(e) == e.name = "toolCallStarted"
IsToolCallEvent(e) == IsToolCallStarted(e) \/ IsToolCallFinished(e)
ToolCallEvents(lg) == SelectSeq(lg, IsToolCallEvent)

\* toolCallStarted and toolCallFinished alternate, each pair about one call
StartedThenFinished(lg) ==
    LET evs == ToolCallEvents(lg) IN
    \A k \in 1..Len(evs) :
        IF k % 2 = 1
        THEN IsToolCallStarted(evs[k])
        ELSE /\ IsToolCallFinished(evs[k])
             /\ evs[k].toolCallId = evs[k - 1].toolCallId
             /\ evs[k].functionName = evs[k - 1].functionName

ToolMessagesIn(msgs) == SelectSeq(msgs, LAMBDA m : m.role = "tool")

\* C34: every tool call dispatched, known, unknown or throwing, gets exactly
\* one toolCallStarted and then exactly one toolCallFinished with the same
\* toolCallId and functionName; ok is the result's success flag; in the step
\* that emits toolCallFinished exactly one tool message is appended, holding
\* the result's content on success and "Error: " followed by the error text
\* on failure; no other step appends a tool message, and no toolCallStarted is
\* emitted while a call is started and not finished.
C34_ToolCallEventsAndMessage ==
    [][/\ StartedThenFinished(log')
       /\ \A k \in 1..Len(NewEntries) :
             /\ IsToolCallStarted(NewEntries[k]) =>
                   /\ pc = "tools"
                   /\ toolIdx' = toolIdx + 1
                   /\ NewEntries[k].toolCallId = curCalls[toolIdx].id
                   /\ NewEntries[k].functionName = curCalls[toolIdx].function.name
                   /\ Len(ToolCallEvents(log)) % 2 = 0
             /\ IsToolCallFinished(NewEntries[k]) =>
                   /\ k = Len(NewEntries)
                   /\ NewEntries[k].ok = NewEntries[k].result.success
                   /\ messages' = Append(messages,
                         [role |-> "tool",
                          content |-> IF NewEntries[k].ok
                                      THEN NewEntries[k].result.content
                                      ELSE "Error: " \o NewEntries[k].result.error,
                          thinking |-> "", tool_calls |-> None,
                          tool_call_id |-> NewEntries[k].toolCallId,
                          name |-> NewEntries[k].functionName])
       /\ (\A k \in 1..Len(NewEntries) : ~IsToolCallFinished(NewEntries[k]))
             => Len(ToolMessagesIn(messages')) <= Len(ToolMessagesIn(messages))
       /\ (pc = "tools" /\ pc' # "tools") =>
             /\ Len(ToolCallEvents(log)) % 2 = 0
             /\ Len(SelectSeq(log, IsToolCallStarted)) >= Len(curCalls)]_vars

\* C34 witness: the three calls of one response are over: A returned, B named
\* no tool and C threw; six events stand in the log in pairs and the last
\* three messages are the three tool messages.
C34_Witness ==
    /\ pc = "tools"
    /\ toolIdx > Len(curCalls)
    /\ inflight = {}
    /\ LET evs == ToolCallEvents(log) IN
       /\ Len(evs) = 6
       /\ [k \in 1..6 |-> evs[k].toolCallId] = <<"A", "A", "B", "B", "C", "C">>
       /\ evs[2].ok /\ ~evs[4].ok /\ ~evs[6].ok
    /\ Len(messages) >= 4
    /\ messages[Len(messages) - 2] = ToolRoleMessage("ok", CallA)
    /\ messages[Len(messages) - 1] = ToolRoleMessage("Error: Unknown tool: foo", CallB)
    /\ messages[Len(messages)] =
          ToolRoleMessage("Error: Tool execution failed: Error: bad\n\nTraceback:\n", CallC)

(***************************************************************************)
(* The history between two summarization passes                            *)
(***************************************************************************)
\* messages' is messages with one message more at its end
GrowsByOne ==
    /\ Len(messages') = Len(messages) + 1
    /\ \A k \in 1..Len(messages) : messages'[k] = messages[k]

LastAdded == messages'[Len(messages')]

\* The response the step received from the LLM
ResponsesReceived == SelectSeq(NewEntries, IsLLMResponse)

\* C35: a step that is not the end of a summarization pass leaves the history
\* as it is or appends exactly one message at its end, every message already
\* there staying as it is: no message is removed or replaced outside a pass.
\* The append of a user message and of a tool message leaves the API-reported
\* total and the suppression flag as they are; the append of an assistant
\* message leaves the flag as it is and the API total as the updateApiTokens
\* call before it set it.
C35_AppendOnly ==
    [][/\ ~Rebuilds => (messages' = messages \/ GrowsByOne)
       /\ (~Rebuilds /\ GrowsByOne) =>
             /\ skipNextTokenCheck' = skipNextTokenCheck
             /\ LastAdded.role \in {"user", "assistant", "tool"}
             /\ LastAdded.role \in {"user", "tool"} => apiTotalTokens' = apiTotalTokens
             /\ LastAdded.role = "assistant" =>
                   /\ Len(ResponsesReceived) = 1
                   /\ apiTotalTokens' = (IF ResponsesReceived[1].response.usage = None
                                         THEN apiTotalTokens
                                         ELSE ResponsesReceived[1].response.usage[1].total_tokens)
       /\ (\/ Len(messages') < Len(messages)
           \/ \E k \in 1..Len(messages) : k <= Len(messages') /\ messages'[k] # messages[k])
             => Rebuilds]_vars

\* C35 witness: after a pass set the suppression flag and the LLM reported a
\* total, two tool messages were appended behind the assistant message, with
\* the flag still set and the total still the reported one.
C35_Witness ==
    /\ pc = "tools"
    /\ skipNextTokenCheck
    /\ apiTotalTokens = 10
    /\ Len(messages) >= 5
    /\ messages[Len(messages)].role = "tool"
    /\ messages[Len(messages) - 1].role = "tool"
    /\ messages[Len(messages) - 2].role = "assistant"
    /\ IsSummaryMessage(messages[Len(messages) - 3])

(***************************************************************************)
(* The step counter and stepStarted                                        *)
(***************************************************************************)
IsStepStarted(e) == e.name = "stepStarted"
StepsStarted(lg) == SelectSeq(lg, IsStepStarted)

\* The last n messages answer the calls, in order
AnsweredInOrder(msgs, calls) ==
    /\ Len(msgs) >= Len(calls)
    /\ \A j \in 1..Len(calls) :
          LET m == msgs[Len(msgs) - Len(calls) + j] IN
          m.role = "tool" /\ m.tool_call_id = calls[j].id

\* C36: within a run the k-th stepStarted carries stepNumber k and the
\* configured maxSteps, and k is between 1 and maxSteps; it is emitted by the
\* stretch of run() in which summarizeMessages() returned, behind every event
\* of that check, and directly before the step's LLM call; the step counter
\* goes up by one, and only when every tool call of the step's response has
\* been dispatched and finished and their tool messages stand at the end of the
\* history.
C36_StepStarted ==
    [][/\ \A k \in 1..Len(StepsStarted(log')) :
             /\ StepsStarted(log')[k].stepNumber = k
             /\ StepsStarted(log')[k].maxSteps = maxSteps'
             /\ 1 <= k /\ k <= maxSteps'
       /\ \A k \in 1..Len(NewEntries) :
             IsStepStarted(NewEntries[k]) =>
                 /\ pc \in {"loop", "summary"}
                 /\ pc' = "llm"
                 /\ NewEntries[k].stepNumber = step + 1
                 /\ step' = step
                 /\ k = Len(NewEntries) - 1
                 /\ IsStepLLMCall(NewEntries[k + 1])
                 /\ request' = messages'
       /\ (\E k \in 1..Len(NewEntries) : IsStepLLMCall(NewEntries[k]))
             => (\E k \in 1..Len(NewEntries) : IsStepStarted(NewEntries[k]))
       /\ step' # step =>
             \/ pc = "idle" /\ step' = 0
             \/ /\ step' = step + 1
                /\ pc = "tools"
                /\ inflight = {}
                /\ Len(ToolCallEvents(log)) % 2 = 0
                /\ Len(curCalls) > 0
                /\ AnsweredInOrder(messages, curCalls)
                /\ messages' = messages
                /\ Len(StepsStarted(log)) = step']_vars

\* C36 witness: a run with maxSteps 2 is in its second step: stepStarted 1 and
\* 2 stand in the log, the counter went up once, after the three tool messages
\* of the first step, and the second LLM call is pending.
C36_Witness ==
    /\ pc = "llm"
    /\ maxSteps = 2
    /\ step = 1
    /\ Len(StepsStarted(log)) = 2
    /\ StepsStarted(log)[2] = [name |-> "stepStarted", stepNumber |-> 2, maxSteps |-> 2]
    /\ log[Len(log) - 1] = StepsStarted(log)[2]
    /\ IsStepLLMCall(log[Len(log)])
    /\ Len(SelectSeq(log, IsToolCallFinished)) = 3

(***************************************************************************)
(* run() comes to its end                                                  *)
(***************************************************************************)
RunIsOver == pc = "idle" /\ Len(log) > 0 /\ IsRunFinished(log[Len(log)])

\* C37: when every LLM request and every tool execution settles, a run() that
\* was entered emits runFinished and returns, whatever maxSteps is and
\* whatever the LLM answers.
C37_RunTerminates == (pc # "idle") ~> RunIsOver

\* C37 witness: a run with maxSteps 2 that dispatched the three tool calls of
\* its first response has emitted runFinished and returned.
C37_Witness ==
    /\ RunIsOver
    /\ maxSteps = 2
    /\ Len(StepsStarted(log)) = 2
    /\ Len(SelectSeq(log, IsToolCallFinished)) = 3

(***************************************************************************)
(* runFinished is the last thing a run does                                *)
(***************************************************************************)
RunFinishedIn(entries) == SelectSeq(entries, IsRunFinished)

\* C38: every return of run() comes with exactly one runFinished event, the
\* last entry that run writes: the step that emits it leaves run(), no step
\* leaves run() without it, and between that return and the next call of
\* run() no event is emitted, no LLM or tool call is made and the history
\* changes only by the caller's addUserMessage.
C38_RunFinishedLast ==
    [][/\ Len(RunFinishedIn(log')) <= 1
       /\ Len(RunFinishedIn(NewEntries)) > 0 =>
             /\ IsRunFinished(NewEntries[Len(NewEntries)])
             /\ pc # "idle"
             /\ pc' = "idle"
             /\ inflight' = {}
       /\ (pc # "idle" /\ pc' = "idle") => Len(RunFinishedIn(NewEntries)) = 1
       /\ pc = "idle" =>
             \/ /\ pc' = "idle"
                /\ log' = log
                /\ request' = request
                /\ GrowsByOne /\ LastAdded.role = "user"
             \/ /\ pc' = "loop"
                /\ log' = <<>>
                /\ messages' = messages]_vars

\* C38 witness: a run of two steps has returned with one runFinished event as
\* the last entry of its log, and the caller has added the next user message
\* since.
C38_Witness ==
    /\ RunIsOver
    /\ Len(RunFinishedIn(log)) = 1
    /\ Len(StepsStarted(log)) = 2
    /\ messages[Len(messages)].role = "user"
    /\ Len(messages) > Len(request) + 1

(***************************************************************************)
(* Tool calls and their results in the context sent to the LLM             *)
(***************************************************************************)
\* The tool calls of the message at k, none for a message that has no list
CallsAt(msgs, k) ==
    IF msgs[k].role = "assistant" /\ msgs[k].tool_calls # None
    THEN msgs[k].tool_calls[1] ELSE <<>>

\* Every assistant message of msgs is directly followed by the tool messages
\* of its tool calls, one per call and in the calls' order, and by no other
\* tool message.
CallsAnswered(msgs) ==
    \A k \in 1..Len(msgs) :
        msgs[k].role = "assistant" =>
            LET calls == CallsAt(msgs, k) IN
            /\ k + Len(calls) <= Len(msgs)
            /\ \A j \in 1..Len(calls) :
                  /\ msgs[k + j].role = "tool"
                  /\ msgs[k + j].tool_call_id = calls[j].id
            /\ k + Len(calls) < Len(msgs) => msgs[k + Len(calls) + 1].role # "tool"

\* C39: in the context of every step-level LLM request each assistant message
\* that has n tool calls is directly followed by n tool messages whose
\* tool_call_ids are the ids of its calls in order: the request is the history
\* at that moment, and no tool call in it lacks its result.
C39_ToolCallsAnswered ==
    /\ CallsAnswered(request)
    /\ pc = "llm" => request = messages

\* C39 witness: the request of the second step holds the assistant message of
\* the first with its three tool calls, then the three tool messages.
C39_Witness ==
    /\ pc = "llm"
    /\ step = 1
    /\ Len(request) >= 4
    /\ Len(CallsAt(request, Len(request) - 3)) = 3
    /\ [j \in 1..3 |-> request[Len(request) - 3 + j].tool_call_id] = <<"A", "B", "C">>

(***************************************************************************)
(* C40: a summarization pass never increases the number of messages in    *)
(* the history, and it is idempotent on structure: a second pass forced   *)
(* directly on the history produced by a pass yields an identical history *)
(* and makes no summary LLM call.                                         *)
(*                                                                         *)
(* ForcedPass(msgs) is the body of summarizeMessages after its trigger    *)
(* (lines 357-408) run on msgs up to its first await of createSummary:    *)
(* with fewer than one user message it returns before the rebuild and     *)
(* leaves the list alone; otherwise it runs the for-loop, and "finished"  *)
(* says that the loop reached its end with no round that had execution    *)
(* messages, that is, without a call of createSummary.                    *)
(***************************************************************************)
ForcedPass(msgs) ==
    IF Len(userIndicesOf(msgs)) < 1
    THEN [finished |-> TRUE, i |-> 1, newMessages |-> msgs]
    ELSE AdvanceRounds(msgs, userIndicesOf(msgs), 1, KeptSystemPrompt(msgs))

SummariesIn(msgs) == SelectSeq(msgs, IsSummaryMessage)

\* C40: in every step in which a pass installs its rebuilt history, the new
\* history is no longer than the old one, and a pass forced on the new history
\* runs to its end without a summary LLM call and rebuilds the same history.
C40_PassShrinksAndIsIdempotent ==
    [][Rebuilds =>
          /\ Len(messages') <= Len(messages)
          /\ ForcedPass(messages').finished
          /\ ForcedPass(messages').newMessages = messages']_vars

\* A pass has just replaced execution messages by a summary: the history is
\* shorter than the one the step started with and holds a summary message.
C40_Witness ==
    /\ pc = "llm"
    /\ skipNextTokenCheck
    /\ request = messages
    /\ Len(messages) < Len(stepStart)
    /\ Len(SummariesIn(messages)) >= 1
    /\ Len(userIndicesOf(messages)) >= 2
    /\ ForcedPass(messages).newMessages = messages

====
